---- MODULE Spec2Model ----
(***************************************************************************)
(* Feed generators of the community-opportunities dashboard:               *)
(*   scripts/generate_ical.js  (opportunities.ics, events.ics)             *)
(*   scripts/generate_rss.js   (opportunities.rss, events.rss)             *)
(* Strings are sequences of one-character strings, so that concatenation,  *)
(* padding, stripping and parsing are computed as the scripts compute them.*)
(* Instants are minutes since 1970-01-01T00:00Z; every time the scripts    *)
(* build has seconds "00".                                                 *)
(***************************************************************************)
EXTENDS Integers, Sequences, FiniteSets, TLC

VARIABLES
    opportunitiesJson,  \* data/opportunities.json: "missing", "garbled" or a sequence of records
    eventsJson,         \* community-events/data/events.json, likewise
    disk,               \* the four output files: Absent or a document
    now,                \* wall clock, minutes since the epoch (new Date())
    hostOffset,         \* host time zone, minutes east of UTC
    lenient,            \* whether the engine's fallback date parser accepts non-ISO date-times
    lastRun,            \* what the last generator run did: script, exit code, writes in order
    capInput,           \* items handed to the RSS sort-and-cap step
    capOutput,          \* the items it kept
    page,               \* what the pages computed: upcoming and past events, which
                        \* dates are past, the calendar file of the last button pressed
    text                \* a record's free text and the VEVENT text properties last
                        \* written from it

vars == <<opportunitiesJson, eventsJson, disk, now, hostOffset, lenient, lastRun,
          capInput, capOutput, page, text>>

\* const c = value; then Body(c): the value is computed once
With(value, Body(_)) == CHOOSE result \in {Body(c) : c \in {value}} : TRUE

(***************************************************************************)
(* Characters and strings                                                  *)
(***************************************************************************)
DigitChars == <<"0", "1", "2", "3", "4", "5", "6", "7", "8", "9">>

UpperChars == <<"A", "B", "C", "D", "E", "F", "G", "H", "I", "J", "K", "L", "M",
                "N", "O", "P", "Q", "R", "S", "T", "U", "V", "W", "X", "Y", "Z">>

LowerChars == <<"a", "b", "c", "d", "e", "f", "g", "h", "i", "j", "k", "l", "m",
                "n", "o", "p", "q", "r", "s", "t", "u", "v", "w", "x", "y", "z">>

DigitValues == [c \in {DigitChars[i] : i \in 1..10} |->
                   (CHOOSE i \in 1..10 : DigitChars[i] = c) - 1]

IsDigit(c) == c \in DOMAIN DigitValues

DigitVal(c) == DigitValues[c]

DigitChar(n) == DigitChars[n + 1]

\* String.prototype.toLowerCase
LowerOf == [c \in {UpperChars[i] : i \in 1..26} |->
               LowerChars[CHOOSE i \in 1..26 : UpperChars[i] = c]]

ToLowerChar(c) == IF c \in DOMAIN LowerOf THEN LowerOf[c] ELSE c

toLowerCase(s) == [i \in 1..Len(s) |-> ToLowerChar(s[i])]

\* String(n).padStart(2, '0') of a number 0..99
Pad2(n) == <<DigitChar(n \div 10), DigitChar(n % 10)>>

\* `${yyyy}` of a four-digit year
Num4(y) == <<DigitChar(y \div 1000), DigitChar((y \div 100) % 10),
             DigitChar((y \div 10) % 10), DigitChar(y % 10)>>

\* s.padStart(5, '0')
padStart5(s) == IF Len(s) >= 5 THEN s ELSE [i \in 1..(5 - Len(s)) |-> "0"] \o s

\* s.replace(/-/g, '')
StripDashes(s) == SelectSeq(s, LAMBDA c : c # "-")

\* s.replace(/[-:]/g, '')
StripDashColon(s) == SelectSeq(s, LAMBDA c : c # "-" /\ c # ":")

Ongoing == <<"o", "n", "g", "o", "i", "n", "g">>

(***************************************************************************)
(* Calendar arithmetic of the Date object (proleptic Gregorian)            *)
(***************************************************************************)
MinutesPerDay == 24 * 60

IsLeap(y) == (y % 4 = 0 /\ y % 100 # 0) \/ y % 400 = 0

DaysInMonth(y, m) ==
    IF m = 2 THEN (IF IsLeap(y) THEN 29 ELSE 28)
    ELSE IF m \in {4, 6, 9, 11} THEN 30 ELSE 31

\* days since 1970-01-01 of a civil date
DaysFromCivil(y, m, d) ==
    LET yy  == IF m <= 2 THEN y - 1 ELSE y
        era == yy \div 400
        yoe == yy - era * 400
        mp  == IF m > 2 THEN m - 3 ELSE m + 9
        doy == (153 * mp + 2) \div 5 + d - 1
        doe == yoe * 365 + yoe \div 4 - yoe \div 100 + doy
    IN  era * 146097 + doe - 719468

\* the civil date <<y, m, d>> of a day number
CivilFromDays(z) ==
    LET zz  == z + 719468
        era == zz \div 146097
        doe == zz - era * 146097
        yoe == (doe - doe \div 1460 + doe \div 36524 - doe \div 146096) \div 365
        doy == doe - (365 * yoe + yoe \div 4 - yoe \div 100)
        mp  == (5 * doy + 2) \div 153
        d   == doy - (153 * mp + 2) \div 5 + 1
        m   == IF mp < 10 THEN mp + 3 ELSE mp - 9
        y   == yoe + era * 400 + (IF m <= 2 THEN 1 ELSE 0)
    IN  <<y, m, d>>

\* the value of an invalid Date (getTime() is NaN)
NaN == -1

(***************************************************************************)
(* new Date(string)                                                        *)
(***************************************************************************)
\* s[i..i+9] reads YYYY-MM-DD
IsDateAt(s, i) ==
    /\ Len(s) >= i + 9
    /\ \A k \in {0, 1, 2, 3, 5, 6, 8, 9} : IsDigit(s[i + k])
    /\ s[i + 4] = "-" /\ s[i + 7] = "-"

Num2At(s, i) == 10 * DigitVal(s[i]) + DigitVal(s[i + 1])

YearAt(s, i) == 1000 * DigitVal(s[i]) + 100 * DigitVal(s[i + 1])
                + 10 * DigitVal(s[i + 2]) + DigitVal(s[i + 3])

\* the day number of the date at s[1..10], or NaN when it is no calendar date
DayOfDateText(s) ==
    IF ~IsDateAt(s, 1) THEN NaN
    ELSE LET y == YearAt(s, 1)
             m == Num2At(s, 6)
             d == Num2At(s, 9)
         IN  IF m \in 1..12 /\ d >= 1 /\ d <= DaysInMonth(y, m)
             THEN DaysFromCivil(y, m, d) ELSE NaN

\* s[i..] reads HH:MM:SS (two-digit hour) and ends there or at a following space
IsTimeAt(s, i) ==
    /\ Len(s) >= i + 7
    /\ \A k \in {0, 1, 3, 4, 6, 7} : IsDigit(s[i + k])
    /\ s[i + 2] = ":" /\ s[i + 5] = ":"
    /\ Num2At(s, i) <= 23 /\ Num2At(s, i + 3) <= 59 /\ Num2At(s, i + 6) <= 59

\* s[i..] reads H:MM:SS (one-digit hour), which is not an ISO time
IsShortTimeAt(s, i) ==
    /\ Len(s) >= i + 6
    /\ \A k \in {0, 2, 3, 5, 6} : IsDigit(s[i + k])
    /\ s[i + 1] = ":" /\ s[i + 4] = ":"
    /\ Num2At(s, i + 2) <= 59 /\ Num2At(s, i + 5) <= 59

UtcWord == <<" ", "U", "T", "C">>

\* new Date(s).getTime() in minutes, NaN when invalid. A bare date is UTC midnight;
\* an ISO date-time without zone is local time; anything after the ISO time, and a
\* one-digit hour, go to the engine's fallback parser, whose outcome is the
\* engine's choice: with engineLenient it reads the time and a trailing " UTC",
\* else NaN.
DateParse(s, offset, engineLenient) ==
    With(DayOfDateText(s), LAMBDA day :
    IF day = NaN THEN NaN
    ELSE IF Len(s) = 10 THEN day * MinutesPerDay
    ELSE IF Len(s) < 12 \/ s[11] # "T" THEN NaN
    ELSE IF IsTimeAt(s, 12) THEN
        With(day * MinutesPerDay + 60 * Num2At(s, 12) + Num2At(s, 15), LAMBDA mins :
        With(SubSeq(s, 20, Len(s)), LAMBDA rest :
            IF rest = <<>> THEN mins - offset
            ELSE IF rest = <<"Z">> THEN mins
            ELSE IF engineLenient /\ rest = UtcWord THEN mins
            ELSE NaN))
    ELSE IF IsShortTimeAt(s, 12) THEN
        With(day * MinutesPerDay + 60 * DigitVal(s[12]) + Num2At(s, 14), LAMBDA mins :
        With(SubSeq(s, 19, Len(s)), LAMBDA rest :
            IF ~engineLenient THEN NaN
            ELSE IF rest = <<>> THEN mins - offset
            ELSE IF rest = UtcWord THEN mins
            ELSE NaN))
    ELSE NaN)

\* date.toISOString().slice(0, 19): YYYY-MM-DDTHH:MM:SS in UTC
IsoText19(t) ==
    With(CivilFromDays(t \div MinutesPerDay), LAMBDA ymd :
    With(t % MinutesPerDay, LAMBDA hm :
        Num4(ymd[1]) \o <<"-">> \o Pad2(ymd[2]) \o <<"-">> \o Pad2(ymd[3]) \o <<"T">>
        \o Pad2(hm \div 60) \o <<":">> \o Pad2(hm % 60) \o <<":", "0", "0">>))

\* yyyy + mm + dd of the UTC fields
UtcDateText8(t) ==
    With(CivilFromDays(t \div MinutesPerDay), LAMBDA ymd :
        Num4(ymd[1]) \o Pad2(ymd[2]) \o Pad2(ymd[3]))


\* date.toISOString().replace(/[-:]/g, '').split('.')[0] + 'Z'
IsoBasicZ(t) == StripDashColon(IsoText19(t)) \o <<"Z">>

(***************************************************************************)
(* JSON values. undefined, null and '' are all the empty sequence (falsy); *)
(* a JSON number is the one-element sequence NumberValue, which is truthy  *)
(* and has no string methods.                                              *)
(***************************************************************************)
Missing == <<>>

NumberValue == <<"#number">>

IsString(v) == v # NumberValue

\* /\d{1,2}:\d{2}(:\d{2})?/.test(dateString)
hasTimeComponent(dateString) ==
    /\ dateString # Missing
    /\ \E i \in 1..Len(dateString) :
          /\ i + 3 <= Len(dateString)
          /\ IsDigit(dateString[i]) /\ dateString[i + 1] = ":"
          /\ IsDigit(dateString[i + 2]) /\ IsDigit(dateString[i + 3])

\* dateString.toLowerCase() raises TypeError on a truthy non-string
LowerThrows(dateString) == dateString # Missing /\ ~IsString(dateString)

NoValue == [value |-> <<>>, isAllDay |-> FALSE]

\* a faulty variant of formatDateForICal that leaves out the isNaN test of line 89:
\* an invalid all-day date is formatted from its NaN fields
formatDateForICalWithoutNaNTest(dateString, offset, engineLenient) ==
    IF dateString = Missing \/ toLowerCase(dateString) = Ongoing THEN NoValue
    ELSE With(DateParse(dateString, offset, engineLenient), LAMBDA t :
         IF ~hasTimeComponent(dateString)
         THEN [value |-> IF t = NaN
                         THEN <<"N", "a", "N", "N", "a", "N", "N", "a", "N">>
                         ELSE UtcDateText8(t),
               isAllDay |-> TRUE]
         ELSE IF t = NaN THEN NoValue
         ELSE [value |-> IsoBasicZ(t), isAllDay |-> FALSE])

\* formatDateForICal, for a string or missing argument
formatDateForICal(dateString, offset, engineLenient) ==
    IF dateString = Missing \/ toLowerCase(dateString) = Ongoing THEN NoValue
    ELSE With(DateParse(dateString, offset, engineLenient), LAMBDA t :
         IF t = NaN THEN NoValue
         ELSE IF ~hasTimeComponent(dateString)
              THEN [value |-> UtcDateText8(t), isAllDay |-> TRUE]
              ELSE [value |-> IsoBasicZ(t), isAllDay |-> FALSE])

\* d.setHours(0, 0, 0, 0): the host-local midnight at or before instant t
LocalMidnight(t, offset) ==
    ((t + offset) \div MinutesPerDay) * MinutesPerDay - offset

\* isValidFutureDate, for a string or missing argument
isValidFutureDate(dateString, clock, offset, engineLenient) ==
    IF dateString = Missing \/ toLowerCase(dateString) = Ongoing THEN FALSE
    ELSE With(DateParse(dateString, offset, engineLenient), LAMBDA t :
         With(0 - offset, LAMBDA timezoneOffset :
             IF t = NaN THEN FALSE
             ELSE LocalMidnight(t - timezoneOffset, offset)
                    >= LocalMidnight(clock - timezoneOffset, offset)))


(***************************************************************************)
(* generate_ical.js: records                                               *)
(* A source opportunity is [Title, Date, EndDate, Archived, CreationDate]; *)
(* a source event is [title, startDate, endDate, startTime, endTime,       *)
(* timeZone, archived]. A processed item also carries src, the source      *)
(* record it was made from, which no code reads.                           *)
(***************************************************************************)
Or(a, b) == IF a # Missing THEN a ELSE b

UtcName == <<"U", "T", "C">>

EventWord == <<"e", "v", "e", "n", "t">>

OpportunityWord == <<"o", "p", "p", "o", "r", "t", "u", "n", "i", "t", "y">>

UntitledEvent == <<"U", "n", "t", "i", "t", "l", "e", "d", " ", "E", "v", "e", "n", "t">>

UntitledOpportunity == <<"U", "n", "t", "i", "t", "l", "e", "d", " ">>
                       \o <<"O", "p", "p", "o", "r", "t", "u", "n", "i", "t", "y">>

TimeTail == <<":", "0", "0">>

\* processOpportunities of generate_ical.js, one record
ICalProcessOpportunity(opp) ==
    [title |-> opp.Title, startDate |-> opp.Date, endDate |-> opp.EndDate,
     startTime |-> Missing, endTime |-> Missing, timeZone |-> Missing,
     isEvent |-> FALSE, src |-> opp]

\* processEvents of generate_ical.js, one record
ICalProcessEvent(event) ==
    [title |-> event.title, startDate |-> event.startDate, endDate |-> event.endDate,
     startTime |-> event.startTime, endTime |-> event.endTime,
     timeZone |-> Or(event.timeZone, UtcName),
     isEvent |-> TRUE, src |-> event]

MapSeq(Op(_), s) == [i \in 1..Len(s) |-> Op(s[i])]

RECURSIVE Flatten(_)
Flatten(ss) == IF ss = <<>> THEN <<>> ELSE Head(ss) \o Flatten(Tail(ss))

(***************************************************************************)
(* generateEventsICal: events.ics                                          *)
(***************************************************************************)
\* startDateStr (lines 203-206)
EventStartText(event) ==
    IF event.startTime # Missing
    THEN event.startDate \o <<"T">> \o padStart5(event.startTime) \o TimeTail
    ELSE event.startDate

\* the Date built at line 214
EventStartObject(event, offset, engineLenient) ==
    DateParse(event.startDate \o <<"T">> \o padStart5(event.startTime) \o TimeTail,
              offset, engineLenient)

\* start.setHours(start.getHours() + 1); start.toISOString().slice(0, 19)
OneHourLater(start) == IsoText19(start + 60)

\* endDateStr (lines 209-217)
EventEndText(event, offset, engineLenient) ==
    With(Or(event.endDate, event.startDate), LAMBDA endDateStr :
        IF event.endTime # Missing
        THEN endDateStr \o <<"T">> \o padStart5(event.endTime) \o TimeTail
        ELSE IF event.startTime # Missing
        THEN OneHourLater(EventStartObject(event, offset, engineLenient))
        ELSE endDateStr)

\* what makes the body of the forEach callback raise, which its catch swallows: an
\* invalid Date has no toISOString, a non-string date has no toLowerCase (joined to
\* a time it reads as no date either way: the event is skipped)
EventThrows(event, offset, engineLenient) ==
    \/ ~IsString(event.startDate)
    \/ /\ event.endTime = Missing /\ event.startTime # Missing
       /\ EventStartObject(event, offset, engineLenient) = NaN

\* formatForTZ (lines 238-242); its second replace rewrites a match by itself
formatForTZ(dateStr) == IF dateStr = Missing THEN <<>> ELSE StripDashColon(dateStr)

\* the DTSTART/DTEND lines of one event (lines 236-252)
EventDates(event, offset, engineLenient) ==
    With(EventStartText(event), LAMBDA startDateStr :
    With(EventEndText(event, offset, engineLenient), LAMBDA endDateStr :
    With(formatDateForICal(startDateStr, offset, engineLenient), LAMBDA startDate :
    With(IF endDateStr # Missing
         THEN formatDateForICal(endDateStr, offset, engineLenient)
         ELSE startDate, LAMBDA endDate :
        IF event.timeZone # Missing /\ ~startDate.isAllDay
        THEN [form |-> "TZID", tzid |-> event.timeZone,
              dtstart |-> formatForTZ(startDateStr),
              dtend |-> formatForTZ(Or(endDateStr, startDateStr))]
        ELSE IF startDate.isAllDay
        THEN [form |-> "DATE", tzid |-> Missing,
              dtstart |-> StripDashes(event.startDate),
              dtend |-> StripDashes(Or(event.endDate, event.startDate))]
        ELSE [form |-> "UTC", tzid |-> Missing,
              dtstart |-> startDate.value,
              dtend |-> Or(endDate.value, startDate.value)]))))

\* a faulty variant of EventsICalEntry that leaves out the test of lines 222-225
\* (skip the event when its start has no value)
EventsICalEntryWithoutValueTest(event, offset, engineLenient) ==
    IF event.startDate = Missing THEN <<>>
    ELSE IF EventThrows(event, offset, engineLenient) THEN <<>>
    ELSE With(EventDates(event, offset, engineLenient), LAMBDA dates :
         <<[src |-> event.src,
            vevent |-> [uidName |-> event.title \o event.startDate \o event.startTime,
                        summary |-> Or(event.title, UntitledEvent),
                        form |-> dates.form, tzid |-> dates.tzid,
                        dtstart |-> dates.dtstart, dtend |-> dates.dtend]]>>)

\* the VEVENTs one event contributes to events.ics: none or one (lines 190-264)
EventsICalEntry(event, offset, engineLenient) ==
    IF event.startDate = Missing THEN <<>>
    ELSE IF EventThrows(event, offset, engineLenient) THEN <<>>
    ELSE IF formatDateForICal(EventStartText(event), offset, engineLenient).value = <<>>
    THEN <<>>
    ELSE With(EventDates(event, offset, engineLenient), LAMBDA dates :
         <<[src |-> event.src,
            vevent |-> [uidName |-> event.title \o event.startDate \o event.startTime,
                        summary |-> Or(event.title, UntitledEvent),
                        form |-> dates.form, tzid |-> dates.tzid,
                        dtstart |-> dates.dtstart, dtend |-> dates.dtend]]>>)

\* the distinct timeZone values, in order of first appearance (lines 152-157)
RECURSIVE Timezones(_)
Timezones(events) ==
    IF events = <<>> THEN <<>>
    ELSE LET before == Timezones(SubSeq(events, 1, Len(events) - 1))
             tz     == events[Len(events)].timeZone
         IN  IF tz = Missing \/ \E i \in 1..Len(before) : before[i] = tz
             THEN before ELSE Append(before, tz)

\* one observance of a VTIMEZONE block
Observance(dtstart, from, to, name, rrule) ==
    [present |-> TRUE, dtstart |-> dtstart, from |-> from, to |-> to, name |-> name,
     rrule |-> rrule]

NoObservance ==
    [present |-> FALSE, dtstart |-> "", from |-> "", to |-> "", name |-> "", rrule |-> ""]

\* TIMEZONE_DEFINITIONS (lines 16-49): the STANDARD and DAYLIGHT parts of each block
TIMEZONE_DEFINITIONS ==
    [CET |-> [daylight |-> Observance("19810329T020000", "+0100", "+0200", "CEST",
                                      "FREQ=YEARLY;BYMONTH=3;BYDAY=-1SU"),
              standard |-> Observance("19801026T030000", "+0200", "+0100", "CET",
                                      "FREQ=YEARLY;BYMONTH=10;BYDAY=-1SU")],
     UTC |-> [daylight |-> NoObservance,
              standard |-> Observance("19700101T000000", "+0000", "+0000", "UTC", "")]]

\* String.prototype.toUpperCase
toUpperCase(s) ==
    [i \in 1..Len(s) |->
        IF \E k \in 1..26 : LowerChars[k] = s[i]
        THEN UpperChars[CHOOSE k \in 1..26 : LowerChars[k] = s[i]] ELSE s[i]]

\* getTimezoneBlock (lines 51-55), which no code calls
getTimezoneBlock(tzid) ==
    IF tzid = Missing THEN [found |-> FALSE]
    ELSE With(toUpperCase(tzid), LAMBDA upper :
        IF upper = <<"C", "E", "T">>
        THEN [found |-> TRUE, id |-> upper, block |-> TIMEZONE_DEFINITIONS.CET]
        ELSE IF upper = <<"U", "T", "C">>
        THEN [found |-> TRUE, id |-> upper, block |-> TIMEZONE_DEFINITIONS.UTC]
        ELSE [found |-> FALSE])

\* the VTIMEZONE block written for a time zone (lines 167-186): the same two
\* observances under every TZID
TimezoneBlock(tz) ==
    [tzid |-> tz,
     standard |-> Observance("19701025T030000", "+0200", "+0100", "CET", ""),
     daylight |-> Observance("19700329T020000", "+0100", "+0200", "CEST", "")]

\* generateEventsICal: the entries of events.ics with their source records
generateEventsICal(events, offset, engineLenient) ==
    [timezones |-> MapSeq(TimezoneBlock, Timezones(events)),
     entries |-> Flatten([i \in 1..Len(events) |->
                            EventsICalEntry(events[i], offset, engineLenient)])]


(***************************************************************************)
(* generateICal: opportunities.ics (lines 341-408)                         *)
(***************************************************************************)
\* " " + timeZone when the item has one
ZoneSuffix(item) == IF item.timeZone # Missing THEN <<" ">> \o item.timeZone ELSE <<>>

\* startDateStr (lines 369-375)
ItemStartText(item) ==
    IF item.isEvent /\ item.startTime # Missing
    THEN item.startDate \o <<"T">> \o item.startTime \o TimeTail \o ZoneSuffix(item)
    ELSE item.startDate

\* endDateStr (lines 377-383)
ItemEndText(item) ==
    LET endDateStr == Or(item.endDate, item.startDate) IN
    IF item.isEvent /\ item.endTime # Missing
    THEN endDateStr \o <<"T">> \o item.endTime \o TimeTail \o ZoneSuffix(item)
    ELSE endDateStr

\* the filter callback of lines 341-351 raises on a truthy non-string startDate
ItemFilterThrows(item) == LowerThrows(item.startDate)

\* the filter callback of lines 341-351
ItemIsValid(item, clock, offset, engineLenient) ==
    /\ item.startDate # Missing
    /\ isValidFutureDate(item.startDate, clock, offset, engineLenient)

\* the VEVENTs one valid item contributes to opportunities.ics (lines 362-406)
ICalItemEntry(item, offset, engineLenient) ==
    With(ItemEndText(item), LAMBDA endDateStr :
    With(formatDateForICal(ItemStartText(item), offset, engineLenient), LAMBDA startDate :
    With(IF endDateStr # Missing
         THEN formatDateForICal(endDateStr, offset, engineLenient)
         ELSE startDate, LAMBDA endDate :
        IF startDate.value = <<>> THEN <<>>
        ELSE <<[src |-> item.src,
                vevent |-> [uidName |-> item.title \o item.startDate \o
                                (IF item.isEvent THEN EventWord ELSE OpportunityWord),
                            summary |-> Or(item.title, IF item.isEvent THEN UntitledEvent
                                                       ELSE UntitledOpportunity),
                            form |-> IF startDate.isAllDay THEN "DATE" ELSE "UTC",
                            tzid |-> Missing,
                            dtstart |-> startDate.value,
                            dtend |-> Or(endDate.value, startDate.value)]]>>)))

\* a faulty variant of CombinedEntries that makes each UID from the time of the run
\* as well (as a time-based UUID would)
CombinedEntriesWithClockInUid(allItems, clock, offset, engineLenient) ==
    With(SelectSeq(allItems, LAMBDA item : ItemIsValid(item, clock, offset, engineLenient)),
         LAMBDA validItems :
            MapSeq(LAMBDA entry :
                       [entry EXCEPT !.vevent.uidName = @ \o Num4((clock \div 60) % 10000)],
                   Flatten([i \in 1..Len(validItems) |->
                               ICalItemEntry(validItems[i], offset, engineLenient)])))

\* the entries of opportunities.ics with their source records
CombinedEntries(allItems, clock, offset, engineLenient) ==
    With(SelectSeq(allItems, LAMBDA item : ItemIsValid(item, clock, offset, engineLenient)),
         LAMBDA validItems :
            Flatten([i \in 1..Len(validItems) |->
                        ICalItemEntry(validItems[i], offset, engineLenient)]))

(***************************************************************************)
(* Files                                                                   *)
(***************************************************************************)
OPPORTUNITIES_ICAL == "opportunities.ics"
EVENTS_ICAL == "events.ics"
OPPORTUNITIES_OUTPUT_FILE == "opportunities.rss"
EVENTS_OUTPUT_FILE == "events.rss"

OutputFiles == {OPPORTUNITIES_ICAL, EVENTS_ICAL, OPPORTUNITIES_OUTPUT_FILE, EVENTS_OUTPUT_FILE}

\* no such file
Absent == [kind |-> "absent"]

\* JSON.parse(fs.readFileSync(path)) raises when the file is missing or is not JSON
ReadThrows(file) == file.state # "ok"

ICalDocument(timezones, entries) ==
    [kind |-> "ics", timezones |-> timezones,
     vevents |-> [i \in 1..Len(entries) |-> entries[i].vevent]]

Sources(entries) == [i \in 1..Len(entries) |-> entries[i].src]

\* a faulty variant of hasContentChanged that never finds the content unchanged
ICalContentAlwaysChanged(files, filePath, newContent) == TRUE

\* hasContentChanged of generate_ical.js: the md5 digests of the existing and the
\* new content differ (digests of different contents are taken to differ)
ICalHasContentChanged(files, filePath, newContent) ==
    IF files[filePath] = Absent THEN TRUE ELSE files[filePath] # newContent

\* a faulty variant of the catch of the generator that logs the error and returns,
\* so the process ends with status 0
FailedWithStatusZero(files, writes, emittedOpportunities) ==
    [disk |-> files, exit |-> 0, writes |-> writes,
     emitted |-> [opportunities |-> emittedOpportunities, events |-> <<>>]]

\* a run that raised into the catch of the generator: process.exit(1)
Failed(files, writes, emittedOpportunities) ==
    [disk |-> files, exit |-> 1, writes |-> writes,
     emitted |-> [opportunities |-> emittedOpportunities, events |-> <<>>]]

\* a faulty variant of the writes of generateICal that puts the events calendar
\* into the events feed of the other generator
ICalWriteIntoEventsFeed(files, oppDoc, evDoc, emitted) ==
    [disk |-> [files EXCEPT ![OPPORTUNITIES_ICAL] = oppDoc, ![EVENTS_OUTPUT_FILE] = evDoc],
     exit |-> 0, writes |-> <<OPPORTUNITIES_ICAL, EVENTS_OUTPUT_FILE>>,
     emitted |-> emitted]

\* the two conditional writes of generateICal (lines 410-430)
ICalWrite(files, oppDoc, evDoc, emitted) ==
    With(ICalHasContentChanged(files, OPPORTUNITIES_ICAL, oppDoc), LAMBDA write1 :
    With(IF write1 THEN [files EXCEPT ![OPPORTUNITIES_ICAL] = oppDoc] ELSE files,
         LAMBDA files1 :
    With(ICalHasContentChanged(files1, EVENTS_ICAL, evDoc), LAMBDA write2 :
        [disk |-> IF write2 THEN [files1 EXCEPT ![EVENTS_ICAL] = evDoc] ELSE files1,
         exit |-> 0,
         writes |-> (IF write1 THEN <<OPPORTUNITIES_ICAL>> ELSE <<>>)
                    \o (IF write2 THEN <<EVENTS_ICAL>> ELSE <<>>),
         emitted |-> emitted])))

\* generateICal (lines 325-438): the files after the run, the exit status, the
\* files written in order, and the source records emitted into each feed
generateICal(oppFile, evFile, files, clock, offset, engineLenient) ==
    IF ReadThrows(oppFile) \/ ReadThrows(evFile) THEN Failed(files, <<>>, <<>>)
    ELSE
    With(MapSeq(ICalProcessOpportunity, oppFile.records), LAMBDA processedOpps :
    With(MapSeq(ICalProcessEvent, evFile.records), LAMBDA processedEvents :
    With(processedOpps \o processedEvents, LAMBDA allItems :
        IF \E i \in 1..Len(allItems) : ItemFilterThrows(allItems[i])
        THEN Failed(files, <<>>, <<>>)
        ELSE
        With(CombinedEntries(allItems, clock, offset, engineLenient), LAMBDA combined :
        With(generateEventsICal(processedEvents, offset, engineLenient), LAMBDA eventsCal :
            ICalWrite(files,
                      ICalDocument(<<>>, combined),
                      ICalDocument(eventsCal.timezones, eventsCal.entries),
                      [opportunities |-> Sources(combined),
                       events |-> Sources(eventsCal.entries)]))))))

(***************************************************************************)
(* generate_rss.js                                                         *)
(***************************************************************************)
FEED_ITEM_LIMIT == 100

\* processOpportunities of generate_rss.js, one record
RssProcessOpportunity(opp) ==
    [title |-> Or(opp.Title, UntitledOpportunity), date |-> opp.Date,
     creationDate |-> opp.CreationDate, isEvent |-> FALSE, src |-> opp]

\* processEvents of generate_rss.js, one record: it copies no creation date
RssProcessEvent(event) ==
    [title |-> Or(event.title, UntitledEvent), date |-> event.startDate,
     creationDate |-> Missing, isEvent |-> TRUE, src |-> event]

\* the filter callback of lines 94-106 raises on a truthy non-string date
RssFilterThrows(item) == LowerThrows(item.date)

\* a faulty variant of the filter callback that leaves out the test of line 98, so
\* that 'Ongoing' is read as a date
RssItemIsValidWithoutOngoingTest(item, clock, offset, engineLenient) ==
    IF item.date = Missing THEN FALSE
    ELSE With(DateParse(item.date, offset, engineLenient), LAMBDA itemDate :
             itemDate # NaN /\ itemDate >= clock)

\* the filter callback of lines 94-106
RssItemIsValid(item, clock, offset, engineLenient) ==
    IF item.date = Missing THEN FALSE
    ELSE IF toLowerCase(item.date) = Ongoing THEN TRUE
    ELSE With(DateParse(item.date, offset, engineLenient), LAMBDA itemDate :
             itemDate # NaN /\ itemDate >= clock)

\* a.creationDate ? new Date(a.creationDate) : new Date(0)
CreationInstant(item, offset, engineLenient) ==
    IF item.creationDate # Missing
    THEN DateParse(item.creationDate, offset, engineLenient)
    ELSE 0

\* Array.prototype.sort with (a, b) => bDate - aDate, which is stable: item i comes
\* behind every item with a later date and every earlier-listed item with the same
\* date. The place of each index in the sorted array:
SortedPlace(keys, i) ==
    1 + Cardinality({j \in 1..Len(keys) :
                        keys[j] > keys[i] \/ (keys[j] = keys[i] /\ j < i)})

\* the indices in sorted order
SortedOrder(keys) ==
    With([i \in 1..Len(keys) |-> SortedPlace(keys, i)], LAMBDA place :
        [r \in 1..Len(keys) |-> CHOOSE i \in 1..Len(keys) : place[i] = r])

\* a faulty variant of the sort of lines 109-113 that leaves the items as listed
KeepListedOrder(items, offset, engineLenient) == items

\* validItems.sort(...) of lines 109-113
SortNewestFirst(items, offset, engineLenient) ==
    With([i \in 1..Len(items) |-> CreationInstant(items[i], offset, engineLenient)],
         LAMBDA keys :
            With(SortedOrder(keys), LAMBDA order :
                [i \in 1..Len(items) |-> items[order[i]]]))

\* validItems.slice(0, FEED_ITEM_LIMIT)
LimitItems(items) ==
    SubSeq(items, 1, IF Len(items) < FEED_ITEM_LIMIT THEN Len(items) ELSE FEED_ITEM_LIMIT)

\* what JSON.stringify(item) writes of a processed item
ItemJson(item) ==
    [title |-> item.title, date |-> item.date, creationDate |-> item.creationDate,
     isEvent |-> item.isEvent]

\* one <item> (lines 122-144); pubDate falls back to the time of the run
RssItem(item, clock, offset, engineLenient) ==
    [title |-> item.title,
     pubDate |-> IF item.creationDate # Missing
                 THEN CreationInstant(item, offset, engineLenient) ELSE clock,
     guid |-> ItemJson(item), isEvent |-> item.isEvent]

\* the feed document: the DATA_FINGERPRINT comment is the md5 of
\* JSON.stringify(validItems) (digests of different texts are taken to differ)
RssDocument(validItems, limitedItems, clock, offset, engineLenient) ==
    [kind |-> "rss",
     fingerprint |-> [present |-> TRUE, of |-> MapSeq(ItemJson, validItems)],
     items |-> [i \in 1..Len(limitedItems) |->
                   RssItem(limitedItems[i], clock, offset, engineLenient)]]

\* a faulty variant of hasContentChanged that finds no change whenever the file exists
RssContentUnchangedIfFileExists(files, filePath, newContent) == files[filePath] = Absent

\* hasContentChanged of generate_rss.js (lines 68-87)
RssHasContentChanged(files, filePath, newContent) ==
    IF files[filePath] = Absent THEN TRUE
    ELSE IF ~files[filePath].fingerprint.present \/ ~newContent.fingerprint.present
    THEN TRUE
    ELSE files[filePath].fingerprint.of # newContent.fingerprint.of

\* generateRSSFeed (lines 90-185)
generateRSSFeed(items, outputFile, files, clock, offset, engineLenient) ==
    IF \E i \in 1..Len(items) : RssFilterThrows(items[i])
    THEN [threw |-> TRUE, disk |-> files, wrote |-> FALSE, included |-> <<>>]
    ELSE
    With(SelectSeq(items, LAMBDA item : RssItemIsValid(item, clock, offset, engineLenient)),
         LAMBDA filtered :
    With(SortNewestFirst(filtered, offset, engineLenient), LAMBDA validItems :
    With(LimitItems(validItems), LAMBDA limitedItems :
    With(RssDocument(validItems, limitedItems, clock, offset, engineLenient), LAMBDA rss :
    With(RssHasContentChanged(files, outputFile, rss), LAMBDA changed :
        [threw |-> FALSE,
         disk |-> IF changed THEN [files EXCEPT ![outputFile] = rss] ELSE files,
         wrote |-> changed,
         included |-> [i \in 1..Len(limitedItems) |-> limitedItems[i].src]])))))

\* generateRSS (lines 188-227)
generateRSS(oppFile, evFile, files, clock, offset, engineLenient) ==
    IF ReadThrows(oppFile) \/ ReadThrows(evFile) THEN Failed(files, <<>>, <<>>)
    ELSE
    With(generateRSSFeed(MapSeq(RssProcessOpportunity, oppFile.records),
                         OPPORTUNITIES_OUTPUT_FILE, files, clock, offset, engineLenient),
         LAMBDA first :
        IF first.threw THEN Failed(files, <<>>, <<>>)
        ELSE
        With(IF first.wrote THEN <<OPPORTUNITIES_OUTPUT_FILE>> ELSE <<>>, LAMBDA writes1 :
        With(generateRSSFeed(MapSeq(RssProcessEvent, evFile.records),
                             EVENTS_OUTPUT_FILE, first.disk, clock, offset, engineLenient),
             LAMBDA second :
            IF second.threw THEN Failed(first.disk, writes1, first.included)
            ELSE [disk |-> second.disk, exit |-> 0,
                  writes |-> writes1 \o (IF second.wrote THEN <<EVENTS_OUTPUT_FILE>>
                                         ELSE <<>>),
                  emitted |-> [opportunities |-> first.included,
                               events |-> second.included]])))


(***************************************************************************)
(* The pages: community-events/js/events.js and the helpers of ISOC.Utils  *)
(***************************************************************************)
\* /^\d{4}-\d{2}-\d{2}$/.test(dateString)
IsBareDate(dateString) == Len(dateString) = 10 /\ IsDateAt(dateString, 1)

\* new Date(year, month - 1, day): midnight of that day in the host's zone; a month
\* or day out of range rolls over into the next or previous month or year
LocalDate(year, month, day, offset) ==
    (DaysFromCivil(year + (month - 1) \div 12, ((month - 1) % 12) + 1, 1) + day - 1)
        * MinutesPerDay - offset

\* the Date the helpers of ISOC.Utils make of a date string (lines 46-52, 124-130)
UtilsDate(dateString, offset, engineLenient) ==
    IF IsBareDate(dateString)
    THEN LocalDate(YearAt(dateString, 1), Num2At(dateString, 6), Num2At(dateString, 9),
                   offset)
    ELSE DateParse(dateString, offset, engineLenient)

\* String.prototype.trim, for spaces
RECURSIVE trim(_)
trim(s) ==
    IF s = <<>> THEN s
    ELSE IF Head(s) = " " THEN trim(Tail(s))
    ELSE IF s[Len(s)] = " " THEN trim(SubSeq(s, 1, Len(s) - 1))
    ELSE s

\* ISOC.Utils.isDateInPast
isDateInPast(dateString, clock, offset, engineLenient) ==
    IF dateString = Missing \/ ~IsString(dateString) THEN FALSE
    ELSE IF toLowerCase(trim(dateString)) = Ongoing THEN FALSE
    ELSE With(UtilsDate(dateString, offset, engineLenient), LAMBDA date :
             date # NaN /\ date < LocalMidnight(clock, offset))

\* new Date(20251201): a number is read as milliseconds since the epoch
NumberInstant == 20251201 \div 60000

\* eventDate of getFutureEvents and getPastEvents: new Date(event.startDate), then
\* setHours(0, 0, 0, 0), which leaves an invalid Date invalid
EventDay(event, offset, engineLenient) ==
    With(IF IsString(event.startDate)
         THEN DateParse(event.startDate, offset, engineLenient)
         ELSE NumberInstant, LAMBDA eventDate :
        IF eventDate = NaN THEN NaN ELSE LocalMidnight(eventDate, offset))

\* the test both filters share: the event has a start date other than 'Ongoing'
\* and eventDate < today
EventIsBeforeToday(event, clock, offset, engineLenient) ==
    /\ event.startDate # Missing
    /\ event.startDate # <<"O", "n", "g", "o", "i", "n", "g">>
    /\ With(EventDay(event, offset, engineLenient), LAMBDA eventDate :
            eventDate # NaN /\ eventDate < LocalMidnight(clock, offset))

\* getFutureEvents (events.js lines 242-255)
getFutureEvents(events, clock, offset, engineLenient) ==
    SelectSeq(events, LAMBDA event : ~EventIsBeforeToday(event, clock, offset, engineLenient))

PAST_EVENTS_LIMIT == 6

\* getPastEvents (events.js lines 258-274): the past events, latest start first, at
\* most six
getPastEvents(events, clock, offset, engineLenient) ==
    With(SelectSeq(events,
                   LAMBDA event : EventIsBeforeToday(event, clock, offset, engineLenient)),
         LAMBDA past :
    With(SortedOrder([i \in 1..Len(past) |->
                         IF IsString(past[i].startDate)
                         THEN DateParse(past[i].startDate, offset, engineLenient)
                         ELSE NumberInstant]), LAMBDA order :
        SubSeq([i \in 1..Len(past) |-> past[order[i]]], 1,
               IF Len(past) < PAST_EVENTS_LIMIT THEN Len(past) ELSE PAST_EVENTS_LIMIT)))

(***************************************************************************)
(* The events page: filters, rendered sections, view toggle (events.js)    *)
(***************************************************************************)
FilterNames == {"region", "type", "category", "format", "language"}

\* currentFilters as declared (lines 9-15): every filter the empty string
NoFilters == [f \in FilterNames |-> <<>>]

\* filterEvents (lines 226-239): an event passes when every non-empty filter equals
\* its field
filterEvents(events, currentFilters) ==
    SelectSeq(events, LAMBDA event :
        \A f \in FilterNames : currentFilters[f] = <<>> \/ event[f] = currentFilters[f])

\* the comparator of lines 380-384 and 569-573 as a key: an event without start
\* date goes last, the others by new Date(startDate)
EventSortKey(event, offset, engineLenient) ==
    IF event.startDate = Missing THEN DaysFromCivil(2999, 12, 31) * MinutesPerDay
    ELSE DateParse(event.startDate, offset, engineLenient)

\* sortedEvents
SortedEvents(futureEvents, offset, engineLenient) ==
    With(SortedOrder([i \in 1..Len(futureEvents) |->
                         EventSortKey(futureEvents[i], offset, engineLenient)]),
         LAMBDA order : [i \in 1..Len(futureEvents) |-> futureEvents[order[i]]])

\* the section 'community-events' as renderEvents creates it (lines 387-416,
\* 576-605): class 'dynamic-section' alone, the toggle with the button 'cards'
\* active, one card for each sorted event
UpcomingSection(sortedEvents) ==
    [id |-> "community-events", viewTable |-> FALSE, active |-> "cards",
     cards |-> sortedEvents]

\* the section of past events (lines 544-563): it has no toggle
PastSection(pastEvents) ==
    [id |-> "past-events", viewTable |-> FALSE, active |-> "none", cards |-> pastEvents]

FEW_EVENTS == 4

\* renderEvents (lines 366-730): the sections in the emptied container
renderEvents(events, clock, offset, engineLenient) ==
    With(getFutureEvents(events, clock, offset, engineLenient), LAMBDA futureEvents :
    With(getPastEvents(events, clock, offset, engineLenient), LAMBDA pastEvents :
        IF Len(futureEvents) <= FEW_EVENTS
        THEN (IF Len(futureEvents) > 0
              THEN <<UpcomingSection(SortedEvents(futureEvents, offset, engineLenient))>>
              ELSE <<>>)
             \o (IF Len(pastEvents) > 0 THEN <<PastSection(pastEvents)>> ELSE <<>>)
        ELSE <<UpcomingSection(SortedEvents(futureEvents, offset, engineLenient))>>))

\* updateView (lines 942-961) on the sections of the document: the class
\* 'view-table' on every .dynamic-section, 'active' on the button of the mode
updateView(sections, viewMode) ==
    [i \in 1..Len(sections) |->
        [sections[i] EXCEPT
            !.viewTable = (viewMode = "table"),
            !.active = IF sections[i].active = "none" THEN "none"
                       ELSE IF viewMode \in {"cards", "table"} THEN viewMode
                       ELSE "neither"]]

\* document.getElementById('view-toggle') finds an element
HasViewToggle(sections) == \E i \in 1..Len(sections) : sections[i].active # "none"

\* the page before init() has run; localStorage is set by InitEvents
NoUi == [ready |-> FALSE, allEvents |-> <<>>, currentFilters |-> NoFilters,
         sections |-> <<>>, count |-> 0, listening |-> FALSE,
         eventsViewMode |-> <<>>, clicked |-> "none", changed |-> FALSE]

\* Number(text) of a run of digits
RECURSIVE NumberOf(_)
NumberOf(digits) ==
    IF digits = <<>> THEN 0
    ELSE 10 * NumberOf(SubSeq(digits, 1, Len(digits) - 1)) + DigitVal(digits[Len(digits)])

\* timeStr.split(':').map(Number), for a time of the form H:MM or HH:MM
TimeFields(timeStr) ==
    With(CHOOSE i \in 1..Len(timeStr) : timeStr[i] = ":", LAMBDA colon :
        <<NumberOf(SubSeq(timeStr, 1, colon - 1)),
          NumberOf(SubSeq(timeStr, colon + 1, Len(timeStr)))>>)

NoICS == [made |-> FALSE, threw |-> FALSE, form |-> "none", dtstart |-> <<>>,
          dtend |-> <<>>, of |-> <<>>]

\* ISOC.Utils.generateICS (lines 120-168) for the event of a calendar button: the
\* form and values of DTSTART and DTEND; toISOString raises on an invalid Date
generateICS(event, offset, engineLenient) ==
    With(UtilsDate(event.startDate, offset, engineLenient), LAMBDA parsed :
    With(IF event.startTime # Missing /\ parsed # NaN
         THEN LocalMidnight(parsed, offset) + 60 * TimeFields(event.startTime)[1]
              + TimeFields(event.startTime)[2]
         ELSE parsed, LAMBDA startDate :
        IF startDate = NaN
        THEN [made |-> TRUE, threw |-> TRUE, form |-> "none", dtstart |-> <<>>,
              dtend |-> <<>>, of |-> event]
        ELSE IF event.startTime # Missing
        THEN [made |-> TRUE, threw |-> FALSE, form |-> "UTC",
              dtstart |-> IsoBasicZ(startDate), dtend |-> IsoBasicZ(startDate + 60),
              of |-> event]
        ELSE [made |-> TRUE, threw |-> FALSE, form |-> "DATE",
              dtstart |-> UtcDateText8(startDate),
              dtend |-> UtcDateText8(startDate + MinutesPerDay), of |-> event]))

(***************************************************************************)
(* Free text: escapeICalText and the SUMMARY, DESCRIPTION and LOCATION     *)
(* lines written by scripts/generate_ical.js, by the older generator       *)
(* (unnamed/part_002) and by ISOC.Utils.generateICS (unnamed/part_005)     *)
(***************************************************************************)
Backslash == "\\"

Newline == "\n"

CarriageReturn == "\r"

CRLF == <<CarriageReturn, Newline>>

\* the pieces lo..hi of ss, concatenated
RECURSIVE Concat(_, _, _)
Concat(ss, lo, hi) ==
    IF lo > hi THEN <<>>
    ELSE IF lo = hi THEN ss[lo]
    ELSE Concat(ss, lo, (lo + hi) \div 2) \o Concat(ss, (lo + hi) \div 2 + 1, hi)

\* String.prototype.replace(/ch/g, rep) for a one-character pattern
replaceAll(s, ch, rep) ==
    Concat([i \in 1..Len(s) |-> IF s[i] = ch THEN rep ELSE <<s[i]>>], 1, Len(s))

\* the characters `.` does not match (U+2028 and U+2029 too; no input here has them)
LineTerminators == {Newline, CarriageReturn}

\* .{1,72} of line 73
FOLD_WIDTH == 72

\* how many characters from position i on one match of /.{1,72}/ takes
DotRun(s, i, limit) ==
    (CHOOSE j \in i..(i + limit) :
        /\ \A k \in i..(j - 1) : k <= Len(s) /\ s[k] \notin LineTerminators
        /\ j = i + limit \/ j > Len(s) \/ s[j] \in LineTerminators) - i

\* s.match(/.{1,72}/g) from position i on: the matches in order (null is <<>>)
RECURSIVE matchAll(_, _)
matchAll(s, i) ==
    IF i > Len(s) THEN <<>>
    ELSE IF s[i] \in LineTerminators THEN matchAll(s, i + 1)
    ELSE With(DotRun(s, i, FOLD_WIDTH),
              LAMBDA n : <<SubSeq(s, i, i + n - 1)>> \o matchAll(s, i + n))

\* Array.prototype.join
RECURSIVE join(_, _)
join(parts, sep) ==
    IF parts = <<>> THEN <<>>
    ELSE IF Len(parts) = 1 THEN parts[1]
    ELSE parts[1] \o sep \o join(Tail(parts), sep)

\* lines 68-72: the four replacements, in the order of the code
EscapeReplacements(t) ==
    replaceAll(
        replaceAll(
            replaceAll(
                replaceAll(t, Backslash, <<Backslash, Backslash>>),
                Newline, <<Backslash, "n">>),
            ";", <<Backslash, ";">>),
        ",", <<Backslash, ",">>)

\* escapeICalText (generate_ical.js lines 66-74, part_002 lines 14-22)
escapeICalText(t) ==
    IF t = Missing THEN <<>>
    ELSE join(matchAll(EscapeReplacements(t), 1), CRLF \o <<" ">>)

\* content.replace(/\r?\n/g, '\r\n') of lines 411 and 424: a newline gets a
\* carriage return before it unless it has one
forceCRLF(s) ==
    Concat([i \in 1..Len(s) |->
               IF s[i] = Newline /\ (i = 1 \/ s[i - 1] # CarriageReturn) THEN CRLF
               ELSE <<s[i]>>], 1, Len(s))

SummaryName == <<"S", "U", "M", "M", "A", "R", "Y", ":">>

DescriptionName == <<"D", "E", "S", "C", "R", "I", "P", "T", "I", "O", "N", ":">>

LocationName == <<"L", "O", "C", "A", "T", "I", "O", "N", ":">>

UrlName == <<"U", "R", "L", ":">>

\* a source record's free text, as an event and as an opportunity read it
TextRecord(title, description, location, link, type, region, issue, who) ==
    [title |-> title, description |-> description, location |-> location,
     link |-> link, type |-> type, region |-> region, issue |-> issue, who |-> who]

\* processEvents (lines 286-300) copies no location
TextOfProcessedEvent(r) ==
    [title |-> r.title, description |-> r.description, link |-> r.link,
     location |-> Missing, isEvent |-> TRUE]

\* processOpportunities (lines 272-283)
TextOfProcessedOpportunity(r) ==
    [title |-> r.title, description |-> r.description, link |-> r.link,
     isEvent |-> FALSE]

\* `\nURL:${link}` of lines 200 and 366
UrlTail(link) == IF link # Missing THEN <<Newline>> \o UrlName \o link ELSE <<>>

\* generateEventsICal, lines 198-200, 230-234 and 254-256, as written to events.ics
EventsTextLines(event) ==
    forceCRLF(
        SummaryName \o escapeICalText(Or(event.title, UntitledEvent)) \o CRLF
        \o (IF event.description # Missing \/ UrlTail(event.link) # <<>>
            THEN DescriptionName \o escapeICalText(event.description)
                 \o UrlTail(event.link) \o CRLF
            ELSE <<>>)
        \o (IF event.location # Missing
            THEN LocationName \o escapeICalText(event.location) \o CRLF
            ELSE <<>>))

\* generateICal, lines 364-366 and 393-394, as written to opportunities.ics
ItemTextLines(item) ==
    forceCRLF(
        SummaryName
        \o escapeICalText(Or(item.title, IF item.isEvent THEN UntitledEvent
                                         ELSE UntitledOpportunity)) \o CRLF
        \o DescriptionName \o escapeICalText(item.description)
        \o UrlTail(item.link) \o CRLF)

NoDescription == <<"N", "o", " ", "d", "e", "s", "c", "r", "i", "p", "t", "i", "o",
      "n", " ", "a", "v", "a", "i", "l", "a", "b", "l", "e", ".">>

TypeLabel == <<Backslash, "n", Backslash, "n", "T", "y", "p", "e", ":", " ">>

RegionLabel == <<Backslash, "n", "R", "e", "g", "i", "o", "n", ":", " ">>

IssueLabel == <<Backslash, "n", "I", "n", "t", "e", "r", "n", "e", "t", " ", "I",
      "s", "s", "u", "e", ":", " ">>

WhoLabel == <<Backslash, "n", "W", "h", "o", " ", "C", "a", "n", " ", "G", "e",
      "t", " ", "I", "n", "v", "o", "l", "v", "e", "d", ":", " ">>

MoreInfoLabel == <<Backslash, "n", Backslash, "n", "M", "o", "r", "e", " ", "i", "n",
      "f", "o", ":", " ">>

SITE_URL == <<"h", "t", "t", "p", "s", ":", "/", "/", "o", "p", "p", "o", "r",
      "t", "u", "n", "i", "t", "i", "e", "s", ".", "i", "n", "t",
      "e", "r", "n", "e", "t", "s", "o", "c", "i", "e", "t", "y",
      ".", "o", "r", "g">>

\* the older generator, part_002 lines 90-100: the description it assembles
OldDescription(opp) ==
    Or(opp.description, NoDescription)
    \o (IF opp.type # Missing THEN TypeLabel \o opp.type ELSE <<>>)
    \o (IF opp.region # Missing THEN RegionLabel \o opp.region ELSE <<>>)
    \o (IF opp.issue # Missing THEN IssueLabel \o opp.issue ELSE <<>>)
    \o (IF opp.who # Missing THEN WhoLabel \o opp.who ELSE <<>>)
    \o (IF opp.link # Missing THEN MoreInfoLabel \o opp.link ELSE <<>>)

\* part_002 line 117
OldTextLines(opp) ==
    SummaryName \o escapeICalText(opp.title) \o CRLF
    \o DescriptionName \o escapeICalText(OldDescription(opp)) \o CRLF
    \o UrlName \o Or(opp.link, SITE_URL) \o CRLF

PageLocation == <<"h", "t", "t", "p", "s", ":", "/", "/", "x", "/">>

\* the calendar button (events.js line 502 and lines 919-931) and
\* ISOC.Utils.generateICS (part_005 lines 161-163)
PageTextLines(event) ==
    With(Or(event.link, PageLocation),
         LAMBDA url :
             SummaryName \o event.title \o CRLF
             \o DescriptionName \o event.description \o MoreInfoLabel \o url \o CRLF
             \o UrlName \o url \o CRLF)

\* sanitizeText (generate_rss.js lines 30-38): the ampersand first
sanitizeText(t) ==
    IF t = Missing \/ ~IsString(t) THEN <<>>
    ELSE replaceAll(
             replaceAll(
                 replaceAll(
                     replaceAll(
                         replaceAll(t, "&", <<"&", "a", "m", "p", ";">>),
                         "<", <<"&", "l", "t", ";">>),
                     ">", <<"&", "g", "t", ";">>),
                 "\"", <<"&", "q", "u", "o", "t", ";">>),
             "'", <<"&", "#", "3", "9", ";">>)

\* processOpportunities and processEvents of generate_rss.js (lines 41-65): the
\* text fields of a processed item
RssTextOfItem(r, isEvent) ==
    [title |-> Or(r.title, IF isEvent THEN UntitledEvent ELSE UntitledOpportunity),
     description |-> r.description,
     link |-> Or(r.link, SITE_URL),
     isEvent |-> isEvent]

HexChars == <<"0", "1", "2", "3", "4", "5", "6", "7", "8", "9", "a", "b", "c", "d", "e", "f">>

\* digest('hex') of an md5: 32 hexadecimal digits that depend on the text hashed
\* (which digits is left open: here they follow the length of the text)
HexDigest(t) == [i \in 1..32 |-> HexChars[1 + ((Len(t) + i) % 16)]]

\* the text elements of one <item> (lines 128-143)
RssItemText(item) ==
    [title |-> sanitizeText(item.title),
     link |-> sanitizeText(item.link),
     description |-> sanitizeText(item.description),
     guid |-> HexDigest(item.title \o item.link \o item.description)]

NoText == [input |-> TextRecord(Missing, Missing, Missing, Missing, Missing, Missing,
                                Missing, Missing),
           writer |-> "none", out |-> <<>>]


(***************************************************************************)
(* The opportunities dashboard (unnamed/part_006)                          *)
(***************************************************************************)
\* isDateInPast of the dashboard (part_006 lines 56-76): new Date(dateString)
\* against today's local midnight
DashboardIsDateInPast(dateString, clock, offset, engineLenient) ==
    IF dateString = Missing \/ ~IsString(dateString) THEN FALSE
    ELSE IF toLowerCase(trim(dateString)) = Ongoing THEN FALSE
    ELSE With(DateParse(dateString, offset, engineLenient), LAMBDA date :
             date # NaN /\ date < LocalMidnight(clock, offset))

\* the normalised opportunity of lines 84-101 (the fields the filter reads)
NormalisedOpportunity(item) ==
    [title |-> item.Title, date |-> item.Date, archived |-> item.Archived, src |-> item]

\* a faulty variant of the filter callback that keeps archived opportunities
DashboardKeepsArchived(item, clock, offset, engineLenient) ==
    /\ item.title # Missing
    /\ ~(item.date # Missing
         /\ DashboardIsDateInPast(item.date, clock, offset, engineLenient))

\* the filter callback of lines 103-107
DashboardKeeps(item, clock, offset, engineLenient) ==
    /\ ~(item.title = Missing \/ item.archived)
    /\ ~(item.date # Missing
         /\ DashboardIsDateInPast(item.date, clock, offset, engineLenient))

\* fetchOpportunities (lines 79-112) on the records of the data file
fetchOpportunities(data, clock, offset, engineLenient) ==
    SelectSeq(MapSeq(NormalisedOpportunity, data),
              LAMBDA item : DashboardKeeps(item, clock, offset, engineLenient))

(***************************************************************************)
(* The filters of the dashboard and their copy in localStorage (part_006)  *)
(***************************************************************************)
\* a filter is null or an array of option values
Null == [null |-> TRUE, items |-> <<>>]

Arr(items) == [null |-> FALSE, items |-> items]

\* an array, the empty one too, is truthy; null and undefined are not
Truthy(v) == ~v.null

\* filters as declared (lines 19-23) and as loadFilters returns them by default
NullFilters == [region |-> Null, issue |-> Null, who |-> Null]

FilterKeys == {"region", "issue", "who"}

KeyText == [region |-> <<"r", "e", "g", "i", "o", "n">>,
            issue |-> <<"i", "s", "s", "u", "e">>,
            who |-> <<"w", "h", "o">>]

Quote == "\""

NullText == <<"n", "u", "l", "l">>

\* JSON.stringify of a string: in quotes, the quote and the backslash escaped
JsonQuote(str) ==
    <<Quote>>
    \o Concat([i \in 1..Len(str) |->
                  IF str[i] = Quote THEN <<Backslash, Quote>>
                  ELSE IF str[i] = Backslash THEN <<Backslash, Backslash>>
                  ELSE <<str[i]>>], 1, Len(str))
    \o <<Quote>>

\* JSON.stringify of null or of an array of strings
JsonValue(v) ==
    IF v.null THEN NullText
    ELSE <<"[">> \o join(MapSeq(JsonQuote, v.items), <<",">>) \o <<"]">>

\* JSON.stringify(filters) (line 49): the keys in the order of their creation
JsonStringify(filters) ==
    <<"{">> \o JsonQuote(KeyText.region) \o <<":">> \o JsonValue(filters.region)
    \o <<",">> \o JsonQuote(KeyText.issue) \o <<":">> \o JsonValue(filters.issue)
    \o <<",">> \o JsonQuote(KeyText.who) \o <<":">> \o JsonValue(filters.who)
    \o <<"}">>

\* the index of the quote that closes a string literal whose content starts at
\* t[j], or 0 when the text ends before
RECURSIVE StringEnd(_, _)
StringEnd(t, j) ==
    IF j > Len(t) THEN 0
    ELSE IF t[j] = Backslash THEN StringEnd(t, j + 2)
    ELSE IF t[j] = Quote THEN j
    ELSE StringEnd(t, j + 1)

\* the string a literal with the content s stands for
RECURSIVE JsonUnquote(_)
JsonUnquote(s) ==
    IF s = <<>> THEN <<>>
    ELSE IF s[1] = Backslash /\ Len(s) >= 2
         THEN <<s[2]>> \o JsonUnquote(SubSeq(s, 3, Len(s)))
         ELSE <<s[1]>> \o JsonUnquote(Tail(s))

ParseFailed == [ok |-> FALSE, value |-> Null, members |-> <<>>, next |-> 0]

\* the rest of an array of strings from t[i] on, after the elements acc
RECURSIVE ParseItems(_, _, _)
ParseItems(t, i, acc) ==
    IF i > Len(t) THEN ParseFailed
    ELSE IF t[i] = "]" /\ (acc = <<>> \/ t[i - 1] = Quote)
         THEN [ParseFailed EXCEPT !.ok = TRUE, !.value = Arr(acc), !.next = i + 1]
    ELSE IF t[i] = "," /\ acc # <<>> /\ t[i - 1] = Quote THEN ParseItems(t, i + 1, acc)
    ELSE IF t[i] = Quote /\ StringEnd(t, i + 1) # 0
         THEN ParseItems(t, StringEnd(t, i + 1) + 1,
                         Append(acc, JsonUnquote(SubSeq(t, i + 1, StringEnd(t, i + 1) - 1))))
    ELSE ParseFailed

\* a value at t[i]: null or an array of strings
ParseValue(t, i) ==
    IF i + 3 <= Len(t) /\ SubSeq(t, i, i + 3) = NullText
    THEN [ParseFailed EXCEPT !.ok = TRUE, !.next = i + 4]
    ELSE IF i <= Len(t) /\ t[i] = "[" THEN ParseItems(t, i + 1, <<>>)
    ELSE ParseFailed

\* the members of an object from t[i] on, after the pairs acc of key and value
RECURSIVE ParseMembers(_, _, _)
ParseMembers(t, i, acc) ==
    IF i > Len(t) THEN ParseFailed
    ELSE IF t[i] = "}" THEN [ParseFailed EXCEPT !.ok = (i = Len(t)), !.members = acc]
    ELSE IF t[i] = "," /\ acc # <<>> THEN ParseMembers(t, i + 1, acc)
    ELSE IF t[i] = Quote /\ StringEnd(t, i + 1) # 0
         THEN With(StringEnd(t, i + 1), LAMBDA j :
                  IF j + 1 > Len(t) \/ t[j + 1] # ":" \/ ~ParseValue(t, j + 2).ok
                  THEN ParseFailed
                  ELSE ParseMembers(t, ParseValue(t, j + 2).next,
                                    Append(acc, <<JsonUnquote(SubSeq(t, i + 1, j - 1)),
                                                  ParseValue(t, j + 2).value>>)))
    ELSE ParseFailed

\* JSON.parse (line 30) of a text in the form saveFilters writes: an object whose
\* values are null or arrays of strings; ok is FALSE where JSON.parse raises
JsonParse(t) ==
    IF t # <<>> /\ t[1] = "{" THEN ParseMembers(t, 2, <<>>) ELSE ParseFailed

\* parsed[key] || null
MemberOrNull(members, key) ==
    IF \E k \in 1..Len(members) : members[k][1] = key /\ Truthy(members[k][2])
    THEN members[CHOOSE k \in 1..Len(members) :
                    /\ members[k][1] = key
                    /\ \A l \in k + 1..Len(members) : members[l][1] # key][2]
    ELSE Null

\* a faulty variant of loadFilters that forgets the filter 'who'
loadFiltersWithoutWho(savedFilters) ==
    IF savedFilters = <<>> \/ ~JsonParse(savedFilters).ok THEN NullFilters
    ELSE [region |-> MemberOrNull(JsonParse(savedFilters).members, KeyText.region),
          issue |-> MemberOrNull(JsonParse(savedFilters).members, KeyText.issue),
          who |-> Null]

\* loadFilters (lines 26-44) on localStorage.getItem('opportunityFilters'); the
\* absent entry is the empty text
loadFilters(savedFilters) ==
    IF savedFilters = <<>> THEN NullFilters
    ELSE With(JsonParse(savedFilters), LAMBDA parsed :
        IF ~parsed.ok THEN NullFilters
        ELSE With([k \in FilterKeys |-> MemberOrNull(parsed.members, KeyText[k])],
                  LAMBDA found :
                 IF Truthy(found.region) \/ Truthy(found.issue) \/ Truthy(found.who)
                 THEN [region |-> found.region, issue |-> found.issue, who |-> found.who]
                 ELSE NullFilters))

\* a field of an opportunity: a string, or an array of strings
Str(value) == [isArray |-> FALSE, items |-> <<value>>]

List(items) == [isArray |-> TRUE, items |-> items]

\* the field of an opportunity a filter looks at
FieldOf == [region |-> "region", issue |-> "internet_issue",
            who |-> "who_can_get_involved"]

includes(array, value) == \E i \in 1..Len(array) : array[i] = value

\* regionMatch, issueMatch and whoMatch of applyFilters (lines 516-529)
FilterMatch(filter, field) ==
    \/ ~Truthy(filter)
    \/ IF field.isArray
       THEN \E i \in 1..Len(field.items) : includes(filter.items, field.items[i])
       ELSE includes(filter.items, field.items[1])

\* allOpportunities.filter(...) of applyFilters (lines 514-532)
applyFilters(allOpportunities, filters) ==
    SelectSeq(allOpportunities, LAMBDA o :
        \A k \in FilterKeys : FilterMatch(filters[k], o[FieldOf[k]]))

\* the place of a character in the order of the code units
CodeOrder == <<Quote>> \o UpperChars \o <<Backslash>> \o LowerChars

CharRank(c) == CHOOSE k \in 1..Len(CodeOrder) : CodeOrder[k] = c

\* a < b as Array.prototype.sort compares strings
RECURSIVE StringLess(_, _)
StringLess(a, b) ==
    IF b = <<>> THEN FALSE
    ELSE IF a = <<>> THEN TRUE
    ELSE IF a[1] = b[1] THEN StringLess(Tail(a), Tail(b))
    ELSE CharRank(a[1]) < CharRank(b[1])

\* unique(opps, key) of renderFilters (lines 357-363): the distinct non-empty
\* values of the field, sorted
SortedStrings(S) ==
    [r \in 1..Cardinality(S) |->
        CHOOSE str \in S : Cardinality({t \in S : StringLess(t, str)}) = r - 1]

\* unique(opps, key) of renderFilters (lines 357-363): the distinct non-empty
\* values of the field, sorted
unique(opps, key) ==
    SortedStrings(UNION {{opps[i][key].items[j] : j \in 1..Len(opps[i][key].items)} :
                            i \in 1..Len(opps)} \ {<<>>})

\* document.querySelector with the value put between double quotes into the
\* selector (lines 369, 375, 381) raises a SyntaxError when the value holds a
\* double quote
SelectorThrows(value) == includes(value, Quote)

\* selectSavedFilters (lines 366-388): the options of the saved values get the
\* class 'selected'; threw when a querySelector raised
selectSavedFilters(filters, options) ==
    [threw |-> \E k \in FilterKeys : \E i \in 1..Len(filters[k].items) :
                  SelectorThrows(filters[k].items[i]),
     selected |-> [k \in FilterKeys |->
                      {options[k][i] : i \in 1..Len(options[k])}
                      \cap {filters[k].items[i] : i \in 1..Len(filters[k].items)}]]

\* selectedRegions, selectedIssues, selectedRoles as updateActiveFilters reads
\* them off the document (lines 433-440): the selected options in their order
SelectedValues(options, selected) ==
    SelectSeq(options, LAMBDA value : value \in selected)

\* the filters the Apply button sets (lines 469-471)
FiltersOfSelection(options, selected) ==
    [k \in FilterKeys |->
        IF SelectedValues(options[k], selected[k]) # <<>>
        THEN Arr(SelectedValues(options[k], selected[k])) ELSE Null]

\* the dashboard before init(); opportunityFilters is the entry of localStorage,
\* the empty text when absent
NoDash == [initialised |-> FALSE, ready |-> FALSE, allOpportunities |-> <<>>,
           filteredOpportunities |-> <<>>, filters |-> NullFilters,
           options |-> [k \in FilterKeys |-> <<>>],
           selected |-> [k \in FilterKeys |-> {}],
           opportunityFilters |-> <<>>, last |-> "none"]

(***************************************************************************)
(* The overlays of the events page and document.body.style.overflow        *)
(***************************************************************************)
\* the page as loaded: no overlay is open. menu: .nav-links has the class 'active';
\* addEvent: #event-form-modal is displayed; subscription: the element
\* #subscription-modal is absent ("none"), appended with its animation frame
\* pending ("pending"), shown with the class 'show' ("show"), or without the class
\* while close timers run ("closing"); timers and frames count the pending
\* callbacks of the element in the document, staleTimers and staleFrames those of
\* elements already removed from it
NoOverlays == [menu |-> FALSE, addEvent |-> FALSE, subscription |-> "none",
               timers |-> 0, staleTimers |-> 0, staleFrames |-> 0, overflow |-> ""]

\* closeMenu (lines 78-84)
closeMenu(ov) == [ov EXCEPT !.menu = FALSE, !.overflow = ""]

\* openMenu (lines 87-93)
openMenu(ov) == [ov EXCEPT !.menu = TRUE, !.overflow = "hidden"]

\* closeSubscriptionModal (lines 1200-1214) up to the start of its timer
closeSubscriptionModal(ov) ==
    [ov EXCEPT !.subscription = "closing", !.timers = @ + 1]

\* the close of the add-event modal (lines 1258-1259, 1267-1268, 1276-1277)
closeAddEvent(ov) == [ov EXCEPT !.addEvent = FALSE, !.overflow = "auto"]

\* the three keydown listeners on a press of Escape, in the order they were added
\* (lines 138-142, 1217-1224, 1274-1280)
escapeKey(ov) ==
    With(IF ov.menu THEN closeMenu(ov) ELSE ov, LAMBDA afterMenu :
    With(IF afterMenu.subscription = "show" THEN closeSubscriptionModal(afterMenu)
         ELSE afterMenu, LAMBDA afterSubscription :
        IF afterSubscription.addEvent THEN closeAddEvent(afterSubscription)
        ELSE afterSubscription))

\* the callback of the close timer (lines 1203-1207): scrolling is enabled unless a
\* subscription modal with the class 'show' is in the document; modal.remove()
\* takes the timer's own element out of the document
closeTimer(ov, stale) ==
    With([ov EXCEPT !.overflow = IF ov.subscription = "show" THEN @ ELSE ""],
         LAMBDA after :
        IF stale THEN [after EXCEPT !.staleTimers = @ - 1]
        ELSE [after EXCEPT !.subscription = "none", !.timers = 0,
                           !.staleTimers = @ + ov.timers - 1])

\* showSubscriptionDialog (lines 1028-1129) up to the request of the animation
\* frame: an element already there is removed, its callbacks stay pending
showSubscriptionDialog(ov) ==
    [ov EXCEPT !.subscription = "pending",
               !.timers = 0,
               !.staleTimers = @ + ov.timers,
               !.staleFrames = @ + (IF ov.subscription = "pending" THEN 1 ELSE 0)]

(***************************************************************************)
(* Inputs                                                                  *)
(***************************************************************************)
DateText(y, m, d) == Num4(y) \o <<"-">> \o Pad2(m) \o <<"-">> \o Pad2(d)

Nov29 == DateText(2025, 11, 29)
Dec01 == DateText(2025, 12, 1)
Dec31 == DateText(2025, 12, 31)

OngoingText == <<"O", "n", "g", "o", "i", "n", "g">>
OngoingUpper == <<"O", "N", "G", "O", "I", "N", "G">>
Tbd == <<"T", "B", "D">>
NoSuchDay == <<"2", "0", "2", "5", "-", "1", "3", "-", "4", "5">>

Time1400 == <<"1", "4", ":", "0", "0">>
Time2330 == <<"2", "3", ":", "3", "0">>
Time0930 == <<"9", ":", "3", "0">>
Time1530 == <<"1", "5", ":", "3", "0">>

Cet == <<"C", "E", "T">>

Created1 == DateText(2025, 11, 1) \o <<"T", "1", "0", ":", "0", "0", ":", "0", "0", "Z">>
Created2 == DateText(2025, 11, 2) \o <<"T", "1", "0", ":", "0", "0", ":", "0", "0", "Z">>

\* the clock at the start: 2025-11-30T12:00Z
BaseNow == DaysFromCivil(2025, 11, 30) * MinutesPerDay + 12 * 60

TickStep == 24 * 60

MaxTicks == 1
MaxRecords == 1
MaxItems == 102
MaxSeed == 3

HostOffsets == {0 - 300, 0, 60}

JsonFile(records) == [state |-> "ok", records |-> records]
MissingFile == [state |-> "missing", records |-> <<>>]
GarbledFile == [state |-> "garbled", records |-> <<>>]

Opp(title, date, endDate, archived, created) ==
    [Title |-> title, Date |-> date, EndDate |-> endDate, Archived |-> archived,
     CreationDate |-> created]

Event(title, startDate, endDate, startTime, endTime, timeZone, archived) ==
    [title |-> title, startDate |-> startDate, endDate |-> endDate,
     startTime |-> startTime, endTime |-> endTime, timeZone |-> timeZone,
     archived |-> archived]

\* title and archived flag: titled, untitled, archived
TitleFlags == {<<<<"A">>, FALSE>>, <<Missing, FALSE>>, <<<<"A">>, TRUE>>}

StartDates == {Missing, OngoingText, OngoingUpper, Tbd, NoSuchDay, NumberValue, Dec01, Dec31}

EndDates == {Missing, Dec31, Tbd}

FeedOpps ==
    {Opp(tf[1], date, endDate, tf[2], created) :
        tf \in TitleFlags, date \in StartDates, endDate \in EndDates,
        created \in {Missing, Created1}}

FeedEvents ==
    {Event(tf[1], startDate, endDate, startTime, endTime, timeZone, tf[2]) :
        tf \in TitleFlags, startDate \in StartDates, endDate \in EndDates,
        startTime \in {Missing, Time1400, Time2330, Time0930},
        endTime \in {Missing, Time1530}, timeZone \in {Missing, Cet}}

\* the records of the run specification: a dated, an ongoing, an archived, an
\* untitled and a non-string-dated opportunity; a timed and a non-string-dated event
RunOpps ==
    <<Opp(<<"A">>, Dec01, Missing, FALSE, Created1),
      Opp(<<"B">>, OngoingText, Missing, FALSE, Created2),
      Opp(<<"C">>, Dec31, Missing, TRUE, Created1),
      Opp(Missing, Dec31, Missing, FALSE, Missing),
      Opp(<<"F">>, NumberValue, Missing, FALSE, Created1)>>

RunEvents ==
    <<Event(<<"M">>, Dec01, Missing, Time1400, Missing, Cet, FALSE),
      Event(<<"P">>, NumberValue, Missing, Missing, Missing, Missing, FALSE)>>

\* the records of q at the places in I, in their order
Pick(q, I) ==
    [k \in 1..Cardinality(I) |->
        q[CHOOSE i \in I : Cardinality({j \in I : j < i}) = k - 1]]

\* the arrays of at most n records taken from q in order
ArraysUpTo(q, n) == {Pick(q, I) : I \in {J \in SUBSET (1..Len(q)) : Cardinality(J) <= n}}

OppFiles == {MissingFile, GarbledFile} \cup {JsonFile(q) : q \in ArraysUpTo(RunOpps, MaxRecords)}

EventFiles == {MissingFile, GarbledFile} \cup {JsonFile(q) : q \in ArraysUpTo(RunEvents, MaxRecords)}

(***************************************************************************)
(* State                                                                   *)
(***************************************************************************)
Scripts == {"rss", "ical"}

\* what is kept of the run before the last one
RunSummary(run) ==
    [ran |-> run.ran, exit |-> run.exit, emitted |-> run.emitted,
     opps |-> run.opps, events |-> run.events, clock |-> run.clock]

NoRun ==
    [ran |-> FALSE, exit |-> 0, emitted |-> [opportunities |-> <<>>, events |-> <<>>],
     opps |-> MissingFile, events |-> MissingFile, clock |-> 0]

NeverRan ==
    [ran |-> FALSE, exit |-> 0, writes |-> <<>>,
     emitted |-> [opportunities |-> <<>>, events |-> <<>>],
     opps |-> MissingFile, events |-> MissingFile, clock |-> 0,
     previous |-> NoRun]

\* the record of a run: its exit status, the files it wrote, the records it
\* emitted, the source files and clock it read, and the same of the run before
RunRecord(result, before) ==
    [ran |-> TRUE, exit |-> result.exit, writes |-> result.writes,
     emitted |-> result.emitted,
     opps |-> opportunitiesJson, events |-> eventsJson, clock |-> now,
     previous |-> RunSummary(before)]

NoCap == [done |-> FALSE, items |-> <<>>]

\* no page has been loaded
NoPage == [rendered |-> FALSE, future |-> <<>>, past |-> <<>>,
           checked |-> FALSE, inPast |-> <<>>, ics |-> NoICS,
           fetched |-> FALSE, loaded |-> <<>>, ui |-> NoUi,
           dash |-> NoDash, ov |-> NoOverlays]

InitCommon ==
    /\ disk = [f \in OutputFiles |-> Absent]
    /\ now = BaseNow
    /\ hostOffset \in HostOffsets
    /\ lenient \in BOOLEAN
    /\ lastRun = [s \in Scripts |-> NeverRan]
    /\ capInput = <<>>
    /\ capOutput = NoCap
    /\ page = NoPage
    /\ text = NoText

Init ==
    /\ opportunitiesJson \in OppFiles
    /\ eventsJson \in EventFiles
    /\ InitCommon

InitFeed ==
    /\ \/ /\ opportunitiesJson \in {JsonFile(<<o>>) : o \in FeedOpps}
          /\ eventsJson = JsonFile(<<>>)
       \/ /\ opportunitiesJson = JsonFile(<<>>)
          /\ eventsJson \in {JsonFile(<<e>>) : e \in FeedEvents}
    /\ InitCommon

(***************************************************************************)
(* Actions                                                                 *)
(***************************************************************************)
\* node scripts/generate_ical.js
RunICal ==
    \E result \in {generateICal(opportunitiesJson, eventsJson, disk, now, hostOffset,
                                 lenient)} :
        /\ disk' = result.disk
        /\ lastRun' = [lastRun EXCEPT !["ical"] = RunRecord(result, lastRun["ical"])]
        /\ UNCHANGED <<opportunitiesJson, eventsJson, now, hostOffset, lenient,
                       capInput, capOutput, page, text>>

\* node scripts/generate_rss.js
RunRSS ==
    \E result \in {generateRSS(opportunitiesJson, eventsJson, disk, now, hostOffset,
                                lenient)} :
        /\ disk' = result.disk
        /\ lastRun' = [lastRun EXCEPT !["rss"] = RunRecord(result, lastRun["rss"])]
        /\ UNCHANGED <<opportunitiesJson, eventsJson, now, hostOffset, lenient,
                       capInput, capOutput, page, text>>

\* time passes between runs
Tick ==
    /\ now < BaseNow + MaxTicks * TickStep
    /\ now' = now + TickStep
    /\ UNCHANGED <<opportunitiesJson, eventsJson, disk, hostOffset, lenient, lastRun,
                   capInput, capOutput, page, text>>

\* events.json is left unparseable by an edit between runs
CorruptEvents ==
    /\ ~ReadThrows(opportunitiesJson) /\ ~ReadThrows(eventsJson)
    /\ eventsJson' = GarbledFile
    /\ UNCHANGED <<opportunitiesJson, disk, now, hostOffset, lenient, lastRun,
                   capInput, capOutput, page, text>>

Next == RunICal \/ RunRSS \/ Tick \/ CorruptEvents

Spec == Init /\ [][Next]_vars

NextFeed == RunICal \/ RunRSS

SpecFeed == InitFeed /\ [][NextFeed]_vars


(***************************************************************************)
(* The pages and the generators at the turn of a day: the clock is early,  *)
(* at noon or late on 2025-12-01, or two weeks later.                      *)
(***************************************************************************)
PageClocks ==
    {DaysFromCivil(2025, 12, 1) * MinutesPerDay + 30,
     DaysFromCivil(2025, 12, 1) * MinutesPerDay + 12 * 60,
     DaysFromCivil(2025, 12, 1) * MinutesPerDay + 23 * 60 + 30,
     DaysFromCivil(2025, 12, 15) * MinutesPerDay + 12 * 60}

PageOpp(date) == Opp(<<"A">>, date, Missing, FALSE, Created1)

PageEvent(startDate, startTime) ==
    Event(<<"A">>, startDate, Missing, startTime, Missing, Missing, FALSE)

\* an event that is over at every clock
EarlierEvent == Event(<<"B">>, Nov29, Missing, Missing, Missing, Missing, FALSE)

\* one opportunity and, after an earlier event, one event with the same date
InitPage ==
    /\ \E date \in StartDates, startTime \in {Missing, Time1400, Time0930} :
          /\ opportunitiesJson = JsonFile(<<PageOpp(date)>>)
          /\ eventsJson = JsonFile(<<EarlierEvent, PageEvent(date, startTime)>>)
    /\ disk = [f \in OutputFiles |-> Absent]
    /\ now \in PageClocks
    /\ hostOffset \in HostOffsets
    /\ lenient \in BOOLEAN
    /\ lastRun = [s \in Scripts |-> NeverRan]
    /\ capInput = <<>>
    /\ capOutput = NoCap
    /\ page = NoPage
    /\ text = NoText

\* renderEvents (events.js lines 366-374): the upcoming and the past events
RenderEvents ==
    /\ ~ReadThrows(eventsJson)
    /\ page' = [page EXCEPT
                   !.rendered = TRUE,
                   !.future = getFutureEvents(eventsJson.records, now, hostOffset, lenient),
                   !.past = getPastEvents(eventsJson.records, now, hostOffset, lenient)]
    /\ UNCHANGED <<opportunitiesJson, eventsJson, disk, now, hostOffset, lenient, lastRun,
                   capInput, capOutput, text>>

\* ISOC.Utils.isDateInPast applied to the date of every opportunity
CheckDates ==
    /\ ~ReadThrows(opportunitiesJson)
    /\ page' = [page EXCEPT
                   !.checked = TRUE,
                   !.inPast = [k \in 1..Len(opportunitiesJson.records) |->
                                 isDateInPast(opportunitiesJson.records[k].Date, now,
                                              hostOffset, lenient)]]
    /\ UNCHANGED <<opportunitiesJson, eventsJson, disk, now, hostOffset, lenient, lastRun,
                   capInput, capOutput, text>>

\* a click on the calendar button of an event (events.js lines 915-933); the button
\* is rendered for an event with a start date other than 'Ongoing' (line 502)
AddToCalendar ==
    /\ ~ReadThrows(eventsJson)
    /\ \E k \in 1..Len(eventsJson.records) :
          /\ eventsJson.records[k].startDate # Missing
          /\ IsString(eventsJson.records[k].startDate)
          /\ eventsJson.records[k].startDate # <<"O", "n", "g", "o", "i", "n", "g">>
          /\ page' = [page EXCEPT
                         !.ics = generateICS(eventsJson.records[k], hostOffset, lenient)]
    /\ UNCHANGED <<opportunitiesJson, eventsJson, disk, now, hostOffset, lenient, lastRun,
                   capInput, capOutput, text>>

NextPage == RenderEvents \/ CheckDates \/ AddToCalendar \/ RunICal \/ RunRSS

SpecPage == InitPage /\ [][NextPage]_vars


(***************************************************************************)
(* The free text of one record through escapeICalText and through each     *)
(* writer of SUMMARY, DESCRIPTION and LOCATION lines                       *)
(***************************************************************************)
TextChars == {"A", " ", ";", ",", Backslash, Newline, CarriageReturn, "é"}

ShortTexts ==
    {<<>>} \cup {<<a>> : a \in TextChars} \cup {<<a, b>> : a, b \in TextChars}

\* lengths around "SUMMARY:" + 67 = 75 and around the 72 of the fold, and two folds
PadLengths == {0, 66, 71, 143}

Pad(n) == [i \in 1..n |-> "A"]

Titles == {Pad(n) \o t : n \in PadLengths, t \in ShortTexts}

Descriptions == {Missing, <<"a", ",", "b", Newline, "c">>}

Locations == {Missing, <<"R", ";", "1">>}

Links == {Missing, <<"u">>}

InitText ==
    /\ \E title \in Titles, description \in Descriptions, location \in Locations,
          link \in Links, tagged \in BOOLEAN :
          text = [input |-> TextRecord(title, description, location, link,
                                       IF tagged THEN <<"T">> ELSE Missing,
                                       IF tagged THEN <<"R">> ELSE Missing,
                                       IF tagged THEN <<"I">> ELSE Missing,
                                       IF tagged THEN <<"W">> ELSE Missing),
                  writer |-> "none", out |-> <<>>]
    /\ opportunitiesJson = JsonFile(<<>>)
    /\ eventsJson = JsonFile(<<>>)
    /\ disk = [f \in OutputFiles |-> Absent]
    /\ now = BaseNow
    /\ hostOffset = 0
    /\ lenient = FALSE
    /\ lastRun = [s \in Scripts |-> NeverRan]
    /\ capInput = <<>>
    /\ capOutput = NoCap
    /\ page = NoPage

\* one writer takes the record, once
TextStep(writer, out) ==
    /\ text.writer = "none"
    /\ text' = [text EXCEPT !.writer = writer, !.out = out]
    /\ UNCHANGED <<opportunitiesJson, eventsJson, disk, now, hostOffset, lenient, lastRun,
                   capInput, capOutput, page>>

\* escapeICalText applied to the title
EscapeTitle == TextStep("escapeICalText", escapeICalText(text.input.title))

\* generateEventsICal writes the record's VEVENT into events.ics
WriteEventText == TextStep("events", EventsTextLines(TextOfProcessedEvent(text.input)))

\* generateICal writes it into opportunities.ics, as an event or as an opportunity
WriteItemText ==
    \/ TextStep("items", ItemTextLines(TextOfProcessedEvent(text.input)))
    \/ TextStep("items", ItemTextLines(TextOfProcessedOpportunity(text.input)))

\* the older generator writes it; its filter (part_002 line 76) wants a title
WriteOldText ==
    /\ text.input.title # Missing
    /\ TextStep("old", OldTextLines(text.input))

\* the calendar button of the events page writes it
WritePageText == TextStep("page", PageTextLines(text.input))

NextText == EscapeTitle \/ WriteEventText \/ WriteItemText \/ WriteOldText \/ WritePageText

SpecText == InitText /\ [][NextText]_vars


(***************************************************************************)
(* The text of one record through sanitizeText and into an RSS <item>      *)
(***************************************************************************)
MarkupChars == {"A", "&", "<", ">", "\"", "'", ";"}

MarkupTexts ==
    {<<>>} \cup {<<a>> : a \in MarkupChars} \cup {<<a, b>> : a, b \in MarkupChars}

MarkupDescriptions == {Missing, <<"<", "b", ">", "x", "&", "y", "<", "/", "b", ">">>}

MarkupLinks == {Missing, <<"u", "?", "a", "&", "b">>, <<"u", "&", "a", "m", "p", ";">>}

InitRssText ==
    /\ \E title \in MarkupTexts, description \in MarkupDescriptions, link \in MarkupLinks :
          text = [input |-> TextRecord(title, description, Missing, link, Missing,
                                       Missing, Missing, Missing),
                  writer |-> "none", out |-> <<>>]
    /\ opportunitiesJson = JsonFile(<<>>)
    /\ eventsJson = JsonFile(<<>>)
    /\ disk = [f \in OutputFiles |-> Absent]
    /\ now = BaseNow
    /\ hostOffset = 0
    /\ lenient = FALSE
    /\ lastRun = [s \in Scripts |-> NeverRan]
    /\ capInput = <<>>
    /\ capOutput = NoCap
    /\ page = NoPage

\* sanitizeText applied to the title
SanitizeTitle == TextStep("sanitizeText", sanitizeText(text.input.title))

\* generateRSSFeed writes the record's <item>, as an opportunity or as an event
WriteRssItemText ==
    \E isEvent \in BOOLEAN :
        TextStep("rss", RssItemText(RssTextOfItem(text.input, isEvent)))

NextRssText == SanitizeTitle \/ WriteRssItemText

SpecRssText == InitRssText /\ [][NextRssText]_vars


(***************************************************************************)
(* The dashboard loads the opportunities                                   *)
(***************************************************************************)
OngoingSpaced == <<" ">> \o OngoingText \o <<" ">>

DashboardDates == StartDates \cup {Nov29, OngoingSpaced, Dec01 \o <<"T">> \o Time1400}

\* an opportunity whose date is past at every clock and host offset of the page
EarlierOpp == Opp(<<"B">>, Nov29, Missing, FALSE, Missing)

InitDashboard ==
    /\ \E tf \in TitleFlags, date \in DashboardDates :
          opportunitiesJson = JsonFile(<<EarlierOpp, Opp(tf[1], date, Missing, tf[2], Missing)>>)
    /\ eventsJson = JsonFile(<<>>)
    /\ disk = [f \in OutputFiles |-> Absent]
    /\ now \in PageClocks
    /\ hostOffset \in HostOffsets
    /\ lenient \in BOOLEAN
    /\ lastRun = [s \in Scripts |-> NeverRan]
    /\ capInput = <<>>
    /\ capOutput = NoCap
    /\ page = NoPage
    /\ text = NoText

\* init of the dashboard: fetchOpportunities
FetchOpportunities ==
    /\ ~ReadThrows(opportunitiesJson)
    /\ ~page.fetched
    /\ page' = [page EXCEPT
                   !.fetched = TRUE,
                   !.loaded = fetchOpportunities(opportunitiesJson.records, now,
                                                 hostOffset, lenient)]
    /\ UNCHANGED <<opportunitiesJson, eventsJson, disk, now, hostOffset, lenient, lastRun,
                   capInput, capOutput, text>>

NextDashboard == FetchOpportunities

SpecDashboard == InitDashboard /\ [][NextDashboard]_vars


(***************************************************************************)
(* Runs of the generators over output files that are already there         *)
(***************************************************************************)
\* validItems of generateRSSFeed (lines 94-113): filtered, then sorted
RssValidItems(items, clock, offset, engineLenient) ==
    SortNewestFirst(SelectSeq(items, LAMBDA item :
                                  RssItemIsValid(item, clock, offset, engineLenient)),
                    offset, engineLenient)

\* a feed file that holds no DATA_FINGERPRINT comment
ForeignRss == [kind |-> "rss", fingerprint |-> [present |-> FALSE, of |-> <<>>],
               items |-> <<>>]

\* a feed file with the DATA_FINGERPRINT comment of the given items over another body
LeftoverRss(validItems) ==
    [kind |-> "rss", fingerprint |-> [present |-> TRUE, of |-> MapSeq(ItemJson, validItems)],
     items |-> <<>>]

\* a calendar file that no run of the script wrote
ForeignICal == [kind |-> "ics", timezones |-> <<>>, vevents |-> <<>>, note |-> "foreign"]

DiskOpps == {<<>>, <<RunOpps[4]>>, <<RunOpps[1], RunOpps[2]>>}

DiskEvents == {<<>>, <<RunEvents[1]>>, <<RunEvents[2]>>}

InitDisk ==
    /\ opportunitiesJson \in {JsonFile(q) : q \in DiskOpps}
    /\ eventsJson \in {JsonFile(q) : q \in DiskEvents}
    /\ now = BaseNow
    /\ hostOffset = 0
    /\ lenient = FALSE
    /\ disk \in {d \in [OutputFiles -> {Absent, ForeignRss, ForeignICal,
                                       LeftoverRss(RssValidItems(
                                           MapSeq(RssProcessOpportunity,
                                                  opportunitiesJson.records),
                                           now, hostOffset, lenient)),
                                       LeftoverRss(RssValidItems(
                                           MapSeq(RssProcessEvent, eventsJson.records),
                                           now, hostOffset, lenient))}] :
                   /\ d[OPPORTUNITIES_ICAL] \in {Absent, ForeignICal}
                   /\ d[EVENTS_ICAL] \in {Absent, ForeignICal}
                   /\ d[OPPORTUNITIES_OUTPUT_FILE] \in
                          {Absent, ForeignRss,
                           LeftoverRss(RssValidItems(
                               MapSeq(RssProcessOpportunity, opportunitiesJson.records),
                               now, hostOffset, lenient))}
                   /\ d[EVENTS_OUTPUT_FILE] \in
                          {Absent, ForeignRss,
                           LeftoverRss(RssValidItems(
                               MapSeq(RssProcessEvent, eventsJson.records),
                               now, hostOffset, lenient))}}
    /\ lastRun = [s \in Scripts |-> NeverRan]
    /\ capInput = <<>>
    /\ capOutput = NoCap
    /\ page = NoPage
    /\ text = NoText

SpecDisk == InitDisk /\ [][Next]_vars


(***************************************************************************)
(* Two events in one run: which VEVENTs get the same UID                   *)
(***************************************************************************)
UidEvents ==
    {Event(title, startDate, Missing, startTime, Missing, Missing, FALSE) :
        title \in {<<"A">>, <<"B">>}, startDate \in {Dec01, Dec31},
        startTime \in {Missing, Time1400, Time0930}}

InitUid ==
    /\ opportunitiesJson \in {JsonFile(<<>>),
                              JsonFile(<<Opp(<<"A">>, Dec01, Missing, FALSE, Created1)>>)}
    /\ eventsJson \in {JsonFile(<<e1, e2>>) : e1, e2 \in UidEvents}
    /\ InitCommon

SpecUid == InitUid /\ [][NextFeed]_vars

(***************************************************************************)
(* The events page in use: init(), filter changes, clicks on the toggle    *)
(***************************************************************************)
UiEvent(title, startDate, region, type, language) ==
    [title |-> title, startDate |-> startDate, endDate |-> Missing,
     startTime |-> Missing, endTime |-> Missing, timeZone |-> Missing,
     archived |-> FALSE, region |-> region, type |-> type, category |-> Missing,
     format |-> <<"O", "n", "l", "i", "n", "e">>, language |-> language]

Africa == <<"A", "f", "r", "i", "c", "a">>
Europe == <<"E", "u", "r", "o", "p", "e">>
Meetup == <<"M", "e", "e", "t", "u", "p">>
Summit == <<"S", "u", "m", "m", "i", "t">>
French == <<"F", "r", "e", "n", "c", "h">>

PastUiEvent == UiEvent(<<"B">>, Nov29, Africa, Meetup, Missing)
TodayUiEvent == UiEvent(<<"A">>, Dec01, Africa, Summit, French)
LaterUiEvent == UiEvent(<<"C">>, Dec31, Europe, Meetup, Missing)
UndatedUiEvent == UiEvent(<<"D">>, Missing, Europe, Meetup, French)

\* what data/events.json may hold: nothing, past events only, a mix, and more
\* upcoming events than FEW_EVENTS
UiEventLists ==
    {<<>>,
     <<PastUiEvent>>,
     <<LaterUiEvent, PastUiEvent, TodayUiEvent>>,
     <<UndatedUiEvent, LaterUiEvent, PastUiEvent>>,
     <<LaterUiEvent, LaterUiEvent, UndatedUiEvent, LaterUiEvent, LaterUiEvent>>}

ViewModes == {Missing, <<"cards">>, <<"table">>}

\* the values a dropdown offers: 'All' and what populateFilters found (lines 164-223)
FilterOptions(events, f) ==
    {<<>>} \cup {events[i][f] : i \in 1..Len(events)}

InitUi ==
    /\ opportunitiesJson = JsonFile(<<>>)
    /\ eventsJson \in {JsonFile(l) : l \in UiEventLists} \cup {GarbledFile}
    /\ disk = [f \in OutputFiles |-> Absent]
    /\ now \in PageClocks
    /\ hostOffset \in HostOffsets
    /\ lenient \in BOOLEAN
    /\ lastRun = [s \in Scripts |-> NeverRan]
    /\ capInput = <<>>
    /\ capOutput = NoCap
    /\ \E saved \in ViewModes : page = [NoPage EXCEPT !.ui.eventsViewMode = saved]
    /\ text = NoText

\* the state of the page after a render of the filtered events followed by
\* updateEventCount (lines 294-298 and 986-989)
Rendered(ui, clock, offset, engineLenient) ==
    With(filterEvents(ui.allEvents, ui.currentFilters), LAMBDA filteredEvents :
        [ui EXCEPT
            !.sections = renderEvents(filteredEvents, clock, offset, engineLenient),
            !.count = Len(getFutureEvents(filteredEvents, clock, offset, engineLenient)),
            !.clicked = "none"])

\* initializeViewToggle (lines 938-979): without a toggle in the document it
\* returns at once; else it registers the click listener and applies the saved mode
initializeViewToggle(ui) ==
    IF ~HasViewToggle(ui.sections) THEN ui
    ELSE With(IF ui.eventsViewMode = Missing THEN <<"cards">> ELSE ui.eventsViewMode,
              LAMBDA savedViewMode :
             [ui EXCEPT !.listening = TRUE,
                        !.sections = updateView(ui.sections, savedViewMode[1]),
                        !.eventsViewMode = savedViewMode])

\* init (lines 982-996); fetchEvents returns [] when the file cannot be read
InitEvents ==
    /\ ~page.ui.ready
    /\ page' = [page EXCEPT !.ui =
                   initializeViewToggle(
                       Rendered([page.ui EXCEPT
                                    !.ready = TRUE,
                                    !.allEvents = IF ReadThrows(eventsJson) THEN <<>>
                                                  ELSE eventsJson.records],
                                now, hostOffset, lenient))]
    /\ UNCHANGED <<opportunitiesJson, eventsJson, disk, now, hostOffset, lenient, lastRun,
                   capInput, capOutput, text>>

\* a 'change' of one of the five dropdowns (lines 292-351)
ChangeFilter ==
    /\ page.ui.ready
    /\ \E f \in FilterNames : \E value \in FilterOptions(page.ui.allEvents, f) :
          page' = [page EXCEPT !.ui =
                      Rendered([page.ui EXCEPT !.currentFilters[f] = value,
                                               !.changed = TRUE],
                               now, hostOffset, lenient)]
    /\ UNCHANGED <<opportunitiesJson, eventsJson, disk, now, hostOffset, lenient, lastRun,
                   capInput, capOutput, text>>

\* a click on a button of the toggle (lines 964-975); without the listener the
\* click does nothing
ClickViewOption ==
    /\ page.ui.ready
    /\ HasViewToggle(page.ui.sections)
    /\ \E view \in {"cards", "table"} :
          page' = [page EXCEPT !.ui =
                      IF page.ui.listening
                      THEN [page.ui EXCEPT
                               !.sections = updateView(page.ui.sections, view),
                               !.eventsViewMode = <<view>>,
                               !.clicked = view]
                      ELSE [page.ui EXCEPT !.clicked = view]]
    /\ UNCHANGED <<opportunitiesJson, eventsJson, disk, now, hostOffset, lenient, lastRun,
                   capInput, capOutput, text>>

NextUi == InitEvents \/ ChangeFilter \/ ClickViewOption

SpecUi == InitUi /\ [][NextUi]_vars

(***************************************************************************)
(* The dashboard in use: init(), the filter options, Apply, Reset, reload  *)
(***************************************************************************)
DashItem(title, region, issue, who) ==
    [title |-> title, region |-> region, internet_issue |-> issue,
     who_can_get_involved |-> List(who)]

Asia == <<"A", "s", "i", "a">>
Quoted == <<"E", Quote, "U", Quote>>
Access == <<"A", "c", "c", "e", "s", "s">>
Member == <<"M", "e", "m", "b", "e", "r">>

\* what fetchOpportunities may return: two lists without and one with an option
\* value that holds double quotes
DashLists ==
    {<<DashItem(<<"A">>, Str(Asia), Str(Access), <<Member>>),
       DashItem(<<"B">>, List(<<Asia, Africa>>), Str(<<>>), <<>>)>>,
     <<DashItem(<<"B">>, Str(Africa), Str(<<>>), <<>>)>>,
     <<DashItem(<<"A">>, Str(Asia), Str(Access), <<Member>>),
       DashItem(<<"C">>, Str(Quoted), Str(<<>>), <<>>)>>}

InitFilters ==
    /\ opportunitiesJson = JsonFile(<<>>)
    /\ eventsJson = JsonFile(<<>>)
    /\ InitCommon

\* init (lines 212-346) when fetchOpportunities returns opportunities: the page is
\* ready when init came to its end; an exception of renderFilters ends it in the
\* catch of line 342, before applyFilters and before the buttons have listeners
InitWith(dash, opportunities) ==
    With(loadFilters(dash.opportunityFilters), LAMBDA filters :
    With([k \in FilterKeys |-> unique(opportunities, FieldOf[k])], LAMBDA options :
    With(selectSavedFilters(filters, options), LAMBDA saved :
        [dash EXCEPT
            !.initialised = TRUE,
            !.ready = ~saved.threw,
            !.allOpportunities = opportunities,
            !.filteredOpportunities =
                IF ~saved.threw
                   /\ (Truthy(filters.region) \/ Truthy(filters.issue)
                       \/ Truthy(filters.who))
                THEN applyFilters(opportunities, filters) ELSE opportunities,
            !.filters = filters,
            !.options = options,
            !.selected = IF saved.threw THEN dash.selected ELSE saved.selected])))

\* the page is loaded and init runs
LoadDashboard ==
    /\ ~page.dash.initialised
    /\ \E opportunities \in DashLists :
          page' = [page EXCEPT !.dash = InitWith(page.dash, opportunities)]
    /\ UNCHANGED <<opportunitiesJson, eventsJson, disk, now, hostOffset, lenient, lastRun,
                   capInput, capOutput, text>>

\* the page is loaded and fetchOpportunities raises: init ends in its catch with
\* the variables as declared
LoadDashboardFails ==
    /\ ~page.dash.initialised
    /\ page' = [page EXCEPT !.dash.initialised = TRUE]
    /\ UNCHANGED <<opportunitiesJson, eventsJson, disk, now, hostOffset, lenient, lastRun,
                   capInput, capOutput, text>>

\* a click on a filter option (lines 406-409)
ToggleOption ==
    /\ page.dash.ready
    /\ \E k \in FilterKeys : \E i \in 1..Len(page.dash.options[k]) :
          page' = [page EXCEPT !.dash.selected[k] =
                      IF page.dash.options[k][i] \in @
                      THEN @ \ {page.dash.options[k][i]}
                      ELSE @ \cup {page.dash.options[k][i]}]
    /\ UNCHANGED <<opportunitiesJson, eventsJson, disk, now, hostOffset, lenient, lastRun,
                   capInput, capOutput, text>>

\* the Apply button (lines 468-484)
ApplyFilters ==
    /\ page.dash.ready
    /\ page' = [page EXCEPT !.dash =
                   With(FiltersOfSelection(page.dash.options, page.dash.selected),
                        LAMBDA filters :
                       [page.dash EXCEPT
                           !.filters = filters,
                           !.opportunityFilters = JsonStringify(filters),
                           !.filteredOpportunities =
                               applyFilters(page.dash.allOpportunities, filters),
                           !.last = "apply"])]
    /\ UNCHANGED <<opportunitiesJson, eventsJson, disk, now, hostOffset, lenient, lastRun,
                   capInput, capOutput, text>>

\* the Reset button (lines 487-509)
ResetFilters ==
    /\ page.dash.ready
    /\ page' = [page EXCEPT !.dash =
                   [page.dash EXCEPT
                       !.selected = [k \in FilterKeys |-> {}],
                       !.filters = NullFilters,
                       !.opportunityFilters = <<>>,
                       !.filteredOpportunities =
                           applyFilters(page.dash.allOpportunities, NullFilters),
                       !.last = "reset"]]
    /\ UNCHANGED <<opportunitiesJson, eventsJson, disk, now, hostOffset, lenient, lastRun,
                   capInput, capOutput, text>>

\* the page is left or loaded again: localStorage stays
Reload ==
    /\ page.dash.initialised
    /\ page' = [page EXCEPT !.dash =
                   [NoDash EXCEPT !.opportunityFilters = page.dash.opportunityFilters]]
    /\ UNCHANGED <<opportunitiesJson, eventsJson, disk, now, hostOffset, lenient, lastRun,
                   capInput, capOutput, text>>

NextFilters ==
    LoadDashboard \/ LoadDashboardFails \/ ToggleOption \/ ApplyFilters \/ ResetFilters
    \/ Reload

SpecFilters == InitFilters /\ [][NextFilters]_vars

(***************************************************************************)
(* The overlays in use: every trigger may fire whenever its element is in  *)
(* the document                                                            *)
(***************************************************************************)
MaxTimers == 2

PendingCallbacks(ov) == ov.timers + ov.staleTimers + ov.staleFrames

InitOverlays ==
    /\ opportunitiesJson = JsonFile(<<>>)
    /\ eventsJson = JsonFile(<<>>)
    /\ InitCommon

\* a click on the hamburger (lines 97-104)
ClickHamburger ==
    /\ page' = [page EXCEPT !.ov = IF page.ov.menu THEN closeMenu(page.ov)
                                   ELSE openMenu(page.ov)]
    /\ UNCHANGED <<opportunitiesJson, eventsJson, disk, now, hostOffset, lenient, lastRun,
                   capInput, capOutput, text>>

\* a click on the overlay of the menu or on one of its links (lines 107-135)
ClickMenuOverlay ==
    /\ page.ov.menu
    /\ page' = [page EXCEPT !.ov = closeMenu(page.ov)]
    /\ UNCHANGED <<opportunitiesJson, eventsJson, disk, now, hostOffset, lenient, lastRun,
                   capInput, capOutput, text>>

\* a click on the logo (lines 63-75)
ClickLogo ==
    /\ page' = [page EXCEPT !.ov = closeMenu(page.ov)]
    /\ UNCHANGED <<opportunitiesJson, eventsJson, disk, now, hostOffset, lenient, lastRun,
                   capInput, capOutput, text>>

\* a press of the Escape key
PressEscape ==
    /\ page' = [page EXCEPT !.ov = escapeKey(page.ov)]
    /\ UNCHANGED <<opportunitiesJson, eventsJson, disk, now, hostOffset, lenient, lastRun,
                   capInput, capOutput, text>>

\* a click on a subscription link (lines 1227-1239)
ClickSubscriptionLink ==
    /\ PendingCallbacks(page.ov) < MaxTimers
    /\ page' = [page EXCEPT !.ov = showSubscriptionDialog(page.ov)]
    /\ UNCHANGED <<opportunitiesJson, eventsJson, disk, now, hostOffset, lenient, lastRun,
                   capInput, capOutput, text>>

\* the animation frame of the element in the document (lines 1124-1129)
AnimationFrame ==
    /\ page.ov.subscription = "pending"
    /\ page' = [page EXCEPT !.ov.subscription = "show", !.ov.overflow = "hidden"]
    /\ UNCHANGED <<opportunitiesJson, eventsJson, disk, now, hostOffset, lenient, lastRun,
                   capInput, capOutput, text>>

\* the animation frame of an element that was removed before it ran
StaleAnimationFrame ==
    /\ page.ov.staleFrames > 0
    /\ page' = [page EXCEPT !.ov.staleFrames = @ - 1, !.ov.overflow = "hidden"]
    /\ UNCHANGED <<opportunitiesJson, eventsJson, disk, now, hostOffset, lenient, lastRun,
                   capInput, capOutput, text>>

\* a click on the close button or on the backdrop of the subscription modal
\* (lines 1137-1142), which stays displayed until its timer runs
ClickCloseSubscription ==
    /\ page.ov.subscription \in {"show", "closing"}
    /\ PendingCallbacks(page.ov) < MaxTimers
    /\ page' = [page EXCEPT !.ov = closeSubscriptionModal(page.ov)]
    /\ UNCHANGED <<opportunitiesJson, eventsJson, disk, now, hostOffset, lenient, lastRun,
                   capInput, capOutput, text>>

\* a close timer of the element in the document runs out
CloseTimer ==
    /\ page.ov.timers > 0
    /\ page' = [page EXCEPT !.ov = closeTimer(page.ov, FALSE)]
    /\ UNCHANGED <<opportunitiesJson, eventsJson, disk, now, hostOffset, lenient, lastRun,
                   capInput, capOutput, text>>

\* a close timer of an element removed by showSubscriptionDialog or by another
\* timer runs out
StaleCloseTimer ==
    /\ page.ov.staleTimers > 0
    /\ page' = [page EXCEPT !.ov = closeTimer(page.ov, TRUE)]
    /\ UNCHANGED <<opportunitiesJson, eventsJson, disk, now, hostOffset, lenient, lastRun,
                   capInput, capOutput, text>>

\* a click on the Add Event button (lines 1248-1253)
ClickAddEvent ==
    /\ page' = [page EXCEPT !.ov.addEvent = TRUE, !.ov.overflow = "hidden"]
    /\ UNCHANGED <<opportunitiesJson, eventsJson, disk, now, hostOffset, lenient, lastRun,
                   capInput, capOutput, text>>

\* a click on the close button or the backdrop of the add-event modal
\* (lines 1257-1271)
ClickCloseAddEvent ==
    /\ page.ov.addEvent
    /\ page' = [page EXCEPT !.ov = closeAddEvent(page.ov)]
    /\ UNCHANGED <<opportunitiesJson, eventsJson, disk, now, hostOffset, lenient, lastRun,
                   capInput, capOutput, text>>

NextOverlays ==
    \/ ClickHamburger \/ ClickMenuOverlay \/ ClickLogo \/ PressEscape
    \/ ClickSubscriptionLink \/ AnimationFrame \/ StaleAnimationFrame
    \/ ClickCloseSubscription \/ CloseTimer \/ StaleCloseTimer
    \/ ClickAddEvent \/ ClickCloseAddEvent

SpecOverlays == InitOverlays /\ [][NextOverlays]_vars

\* the subscription dialog alone: no menu, no add-event modal
NextSubscription ==
    \/ PressEscape \/ ClickSubscriptionLink \/ AnimationFrame \/ StaleAnimationFrame
    \/ ClickCloseSubscription \/ CloseTimer \/ StaleCloseTimer

SpecSubscription == InitOverlays /\ [][NextSubscription]_vars

(***************************************************************************)
(* The sort-and-cap step of generateRSSFeed (lines 108-116) on its own:    *)
(* capInput is the list of items that passed the filter.                   *)
(***************************************************************************)
\* the i-th filtered item: its creation date cycles with the seed, a few have
\* none; src is its place in the input
CapItem(i, seed) ==
    [title |-> <<"A">>, date |-> OngoingText,
     creationDate |-> IF (i * seed) % 64 = 0 THEN Missing
                      ELSE DateText(2025, 11, 1 + ((i * seed) % 7))
                           \o <<"T", "1", "0", ":", "0", "0", ":", "0", "0", "Z">>,
     isEvent |-> FALSE, src |-> i]

InitCap ==
    /\ capInput \in {[i \in 1..n |-> CapItem(i, seed)] : n \in 0..MaxItems, seed \in 1..MaxSeed}
    /\ capOutput = NoCap
    /\ opportunitiesJson = JsonFile(<<>>)
    /\ eventsJson = JsonFile(<<>>)
    /\ disk = [f \in OutputFiles |-> Absent]
    /\ now = BaseNow
    /\ hostOffset = 0
    /\ lenient = FALSE
    /\ lastRun = [s \in Scripts |-> NeverRan]
    /\ page = NoPage
    /\ text = NoText

\* lines 108-116: sort by creation date, newest first, then keep the first 100
ApplyCap ==
    /\ ~capOutput.done
    /\ capOutput' = [done |-> TRUE,
                     items |-> LimitItems(SortNewestFirst(capInput, hostOffset, lenient))]
    /\ UNCHANGED <<opportunitiesJson, eventsJson, disk, now, hostOffset, lenient, lastRun,
                   capInput, page, text>>

NextCap == ApplyCap

SpecCap == InitCap /\ [][NextCap]_vars


(***************************************************************************)
(* Properties                                                              *)
(***************************************************************************)
Feeds == {"opportunities", "events"}

\* the iCal file a feed of generate_ical.js is written to
ICalFileOf(feed) == IF feed = "opportunities" THEN OPPORTUNITIES_ICAL ELSE EVENTS_ICAL

\* the fields of a source record, opportunity or event
SrcIsOpportunity(src) == "Date" \in DOMAIN src

SrcStart(src) == IF SrcIsOpportunity(src) THEN src.Date ELSE src.startDate

SrcEnd(src) == IF SrcIsOpportunity(src) THEN src.EndDate ELSE src.endDate

SrcTitle(src) == IF SrcIsOpportunity(src) THEN src.Title ELSE src.title

SrcArchived(src) == IF SrcIsOpportunity(src) THEN src.Archived ELSE src.archived

\* the last run of generate_ical.js ended with status 0, so the two iCal files
\* hold the documents it built
ICalUpToDate == lastRun["ical"].ran /\ lastRun["ical"].exit = 0

\* the instant a local basic-format text YYYYMMDDTHHMMSS names, in minutes
BasicLocalMinutes(b) ==
    DaysFromCivil(YearAt(b, 1), Num2At(b, 5), Num2At(b, 7)) * MinutesPerDay
    + 60 * Num2At(b, 10) + Num2At(b, 12)

\* C1: every all-day VEVENT of either iCal file carries a DTEND;VALUE=DATE that is
\* the calendar day after the record's last inclusive day (its endDate, or its
\* startDate when it has no endDate).
C1_AllDayEndIsDayAfterLast ==
    ICalUpToDate =>
        \A feed \in Feeds : \A i \in 1..Len(lastRun["ical"].emitted[feed]) :
            LET src     == lastRun["ical"].emitted[feed][i]
                vevent  == disk[ICalFileOf(feed)].vevents[i]
                lastDay == DayOfDateText(Or(SrcEnd(src), SrcStart(src)))
            IN  (vevent.form = "DATE" /\ lastDay # NaN)
                    => vevent.dtend = UtcDateText8((lastDay + 1) * MinutesPerDay)

\* C2: every VEVENT of events.ics made from an event with a startTime and no
\* endTime carries a DTEND one hour after its DTSTART, in the same TZID-qualified
\* local form, whatever the host's UTC offset.
C2_DefaultEndIsOneHourAfterStart ==
    ICalUpToDate =>
        \A i \in 1..Len(lastRun["ical"].emitted.events) :
            LET src    == lastRun["ical"].emitted.events[i]
                vevent == disk[EVENTS_ICAL].vevents[i]
            IN  (src.startTime # Missing /\ src.endTime = Missing)
                    => /\ vevent.form = "TZID"
                       /\ vevent.dtend =
                            StripDashColon(IsoText19(BasicLocalMinutes(vevent.dtstart) + 60))

\* C3: no archived record and no record without a title is among the records a
\* run of either generator emitted into a feed.
C3_NoArchivedOrUntitledItem ==
    \A s \in Scripts : \A feed \in Feeds :
        \A i \in 1..Len(lastRun[s].emitted[feed]) :
            LET src == lastRun[s].emitted[feed][i]
            IN  ~SrcArchived(src) /\ SrcTitle(src) # Missing

\* the source records a run of generate_rss.js read for a feed
RssSource(feed) ==
    IF feed = "opportunities" THEN lastRun["rss"].opps.records
    ELSE lastRun["rss"].events.records

IsOngoing(date) == date # Missing /\ IsString(date) /\ toLowerCase(date) = Ongoing

\* C4: a record whose start date is "Ongoing" in any letter case, with or without
\* a startTime, is never among the records emitted into opportunities.ics or
\* events.ics, and is among the items of the RSS feed built from its source.
C4_OngoingOnlyInRss ==
    /\ \A feed \in Feeds : \A i \in 1..Len(lastRun["ical"].emitted[feed]) :
          ~IsOngoing(SrcStart(lastRun["ical"].emitted[feed][i]))
    /\ (lastRun["rss"].ran /\ lastRun["rss"].exit = 0) =>
          \A feed \in Feeds : \A k \in 1..Len(RssSource(feed)) :
              IsOngoing(SrcStart(RssSource(feed)[k])) =>
                  \E i \in 1..Len(lastRun["rss"].emitted[feed]) :
                      lastRun["rss"].emitted[feed][i] = RssSource(feed)[k]

\* both generators have run on a source holding an ongoing event with a start and
\* an end time: the RSS feed has it, neither iCal file has a VEVENT
C4_OngoingTimedEventRetainedByRssOnly ==
    /\ ICalUpToDate
    /\ lastRun["rss"].ran /\ lastRun["rss"].exit = 0
    /\ \E k \in 1..Len(eventsJson.records) :
          /\ IsOngoing(eventsJson.records[k].startDate)
          /\ eventsJson.records[k].startTime # Missing
          /\ eventsJson.records[k].endTime # Missing
          /\ lastRun["rss"].emitted.events = <<eventsJson.records[k]>>
    /\ disk[EVENTS_OUTPUT_FILE] # Absent /\ Len(disk[EVENTS_OUTPUT_FILE].items) = 1
    /\ disk[EVENTS_ICAL] # Absent /\ disk[EVENTS_ICAL].vevents = <<>>
    /\ disk[OPPORTUNITIES_ICAL] # Absent /\ disk[OPPORTUNITIES_ICAL].vevents = <<>>

FilesOf(s) ==
    IF s = "ical" THEN {OPPORTUNITIES_ICAL, EVENTS_ICAL}
    ELSE {OPPORTUNITIES_OUTPUT_FILE, EVENTS_OUTPUT_FILE}

\* the last run of script s followed an earlier run of it, and read the same source
\* files as that one
RanTwiceOnSameSources(s) ==
    /\ lastRun[s].ran /\ lastRun[s].previous.ran
    /\ lastRun[s].previous.opps = lastRun[s].opps
    /\ lastRun[s].previous.events = lastRun[s].events

C7_FailedRunWroteNothing ==
    \A s \in Scripts : (lastRun[s].ran /\ lastRun[s].exit # 0) => lastRun[s].writes = <<>>

\* every date of every record of the source files is a string or missing
AllDatesAreText(oppFile, evFile) ==
    /\ \A k \in 1..Len(oppFile.records) : IsString(oppFile.records[k].Date)
    /\ \A k \in 1..Len(evFile.records) : IsString(evFile.records[k].startDate)

\* C8: a run of a generator that found a source file missing or unparseable exited
\* 1 and wrote nothing, and no output file changes in any step taken while a source
\* file is missing or unparseable; a run in which both files were read and no
\* record raised exited 0, whether or not it wrote anything.
C8_InputErrorExitsOneWritesNothing ==
    /\ [](\A s \in Scripts :
            lastRun[s].ran =>
                /\ (ReadThrows(lastRun[s].opps) \/ ReadThrows(lastRun[s].events))
                      => (lastRun[s].exit = 1 /\ lastRun[s].writes = <<>>)
                /\ (~ReadThrows(lastRun[s].opps) /\ ~ReadThrows(lastRun[s].events)
                    /\ AllDatesAreText(lastRun[s].opps, lastRun[s].events))
                      => lastRun[s].exit = 0)
    /\ [][(ReadThrows(opportunitiesJson) \/ ReadThrows(eventsJson)) => disk' = disk]_vars

\* a generator has run on an unparseable events.json after a run that succeeded:
\* it exited 1 and the files of the earlier run are still there
C8_GarbledEventsFileFailedTheRun ==
    \E s \in Scripts :
        /\ lastRun[s].ran /\ lastRun[s].exit = 1
        /\ lastRun[s].events = GarbledFile
        /\ ~ReadThrows(lastRun[s].opps)
        /\ lastRun[s].previous.ran /\ lastRun[s].previous.exit = 0
        /\ lastRun[s].writes = <<>>
        /\ \A f \in FilesOf(s) : disk[f] # Absent

\* C9: a run whose source files are both read exits 0, whatever is wrong with
\* single records.
C9_RecordProblemsNeverAbort ==
    \A s \in Scripts :
        (lastRun[s].ran /\ ~ReadThrows(lastRun[s].opps) /\ ~ReadThrows(lastRun[s].events))
            => lastRun[s].exit = 0

\* C10: of n records that passed the RSS filter the feed has min(n, 100) items,
\* each a different one of the n; every item kept was created no earlier than any
\* record dropped, and the items stand newest first. (A record without a creation
\* date counts as created at the epoch, as in the sort's comparator.)
C10_CapKeepsTheNewestHundred ==
    capOutput.done =>
        \A created \in {[i \in 1..Len(capInput) |->
                            CreationInstant(capInput[i], hostOffset, lenient)]} :
            LET n    == Len(capInput)
                out  == capOutput.items
                kept == {out[i].src : i \in 1..Len(out)}
            IN  /\ Len(out) = (IF n < 100 THEN n ELSE 100)
                /\ Cardinality(kept) = Len(out)
                /\ \A i \in 1..Len(out) : out[i].src \in 1..n /\ out[i] = capInput[out[i].src]
                /\ \A k \in kept : \A d \in (1..n) \ kept : created[k] >= created[d]
                /\ \A i \in 1..Len(out) : \A j \in i..Len(out) :
                      created[out[i].src] >= created[out[j].src]

\* more than 100 records passed the filter, 100 were kept, the first kept is not
\* the first listed, and a record with a creation date was dropped
C10_MoreThanHundredWereCut ==
    /\ capOutput.done
    /\ Len(capInput) > 100
    /\ Len(capOutput.items) = 100
    /\ capOutput.items[1].src # 1
    /\ \E d \in 1..Len(capInput) :
          /\ capInput[d].creationDate # Missing
          /\ \A i \in 1..100 : capOutput.items[i].src # d

\* the text a VEVENT's UID is the version-5 UUID of (lines 197 and 363), as made
\* from the fields of its source record
UidNameOf(feed, src) ==
    IF feed = "events" THEN src.title \o src.startDate \o src.startTime
    ELSE SrcTitle(src) \o SrcStart(src)
         \o (IF SrcIsOpportunity(src) THEN OpportunityWord ELSE EventWord)

\* C11: the UID of every VEVENT is the hash of a text made of the record's title,
\* start date and start time (events.ics) or title, start date and kind
\* (opportunities.ics) and of nothing else; and when two consecutive states both
\* hold the output of a run of generate_ical.js, a record emitted in both carries
\* the same UID in both, whatever the clock of each run.
C11_UidIsAFunctionOfRecordFields ==
    /\ [](ICalUpToDate =>
            \A feed \in Feeds : \A i \in 1..Len(lastRun["ical"].emitted[feed]) :
                disk[ICalFileOf(feed)].vevents[i].uidName
                    = UidNameOf(feed, lastRun["ical"].emitted[feed][i]))
    /\ [][(ICalUpToDate /\ ICalUpToDate') =>
            \A feed \in Feeds :
                \A i \in 1..Len(lastRun["ical"].emitted[feed]) :
                    \A j \in 1..Len(lastRun'["ical"].emitted[feed]) :
                        lastRun["ical"].emitted[feed][i] = lastRun'["ical"].emitted[feed][j]
                            => disk[ICalFileOf(feed)].vevents[i].uidName
                                 = disk'[ICalFileOf(feed)].vevents[j].uidName]_vars

\* generate_ical.js has run twice on the same sources, the second time a day later,
\* and both runs emitted the same VEVENTs into both files
C11_SameRecordsEmittedADayLater ==
    /\ ICalUpToDate
    /\ RanTwiceOnSameSources("ical")
    /\ lastRun["ical"].previous.exit = 0
    /\ lastRun["ical"].clock > lastRun["ical"].previous.clock
    /\ lastRun["ical"].emitted = lastRun["ical"].previous.emitted
    /\ Len(lastRun["ical"].emitted.opportunities) = 1
    /\ Len(lastRun["ical"].emitted.events) = 1
    /\ disk[EVENTS_ICAL].vevents[1].uidName = <<"M">> \o Dec01 \o Time1400

\* the RSS file a feed of generate_rss.js is written to
RssFileOf(feed) ==
    IF feed = "opportunities" THEN OPPORTUNITIES_OUTPUT_FILE ELSE EVENTS_OUTPUT_FILE

\* C12: in every RSS file a run has just written, the pubDate of each item is the
\* creation date of its record when the record has one, and is never the time of
\* the run, for opportunity items and for event items.
C12_PubDateIsNeverTheTimeOfTheRun ==
    \A feed \in Feeds :
        (\E k \in 1..Len(lastRun["rss"].writes) : lastRun["rss"].writes[k] = RssFileOf(feed))
            => \A i \in 1..Len(lastRun["rss"].emitted[feed]) :
                  LET src  == lastRun["rss"].emitted[feed][i]
                      item == disk[RssFileOf(feed)].items[i]
                  IN  /\ item.pubDate # lastRun["rss"].clock
                      /\ (SrcIsOpportunity(src) /\ src.CreationDate # Missing)
                            => item.pubDate = DateParse(src.CreationDate, hostOffset, lenient)

\* the date is a bare YYYY-MM-DD naming the calendar day of the clock, in UTC and in
\* the host's zone alike
DatedTodayAt(date, clock, offset) ==
    /\ IsString(date) /\ date # Missing /\ IsBareDate(date)
    /\ DayOfDateText(date) # NaN
    /\ DayOfDateText(date) = clock \div MinutesPerDay
    /\ DayOfDateText(date) = (clock + offset) \div MinutesPerDay

\* record r is one of the records of the sequence q
IsAmong(r, q) == \E i \in 1..Len(q) : q[i] = r

\* the source records a run of generate_ical.js read, opportunities then events
ICalSource == lastRun["ical"].opps.records \o lastRun["ical"].events.records

\* C13: a record dated today is kept by the RSS filter and by the future filter of
\* opportunities.ics in a run that exits 0, and the events page lists it as upcoming
\* and not as past, at every time of day and for every host offset.
C13_TodayIsNeverPast ==
    /\ (lastRun["rss"].ran /\ lastRun["rss"].exit = 0) =>
          \A feed \in Feeds : \A k \in 1..Len(RssSource(feed)) :
              DatedTodayAt(SrcStart(RssSource(feed)[k]), lastRun["rss"].clock, hostOffset)
                  => IsAmong(RssSource(feed)[k], lastRun["rss"].emitted[feed])
    /\ ICalUpToDate =>
          \A k \in 1..Len(ICalSource) :
              (/\ DatedTodayAt(SrcStart(ICalSource[k]), lastRun["ical"].clock, hostOffset)
               /\ (SrcIsOpportunity(ICalSource[k]) \/ ICalSource[k].startTime = Missing))
                  => IsAmong(ICalSource[k], lastRun["ical"].emitted.opportunities)
    /\ page.rendered =>
          \A k \in 1..Len(eventsJson.records) :
              DatedTodayAt(eventsJson.records[k].startDate, now, hostOffset)
                  => /\ IsAmong(eventsJson.records[k], page.future)
                     /\ ~IsAmong(eventsJson.records[k], page.past)

\* C14: a record whose date is "Ongoing" is among the items of the RSS feed built
\* from its source in a run that exits 0, is listed by getFutureEvents and not by
\* getPastEvents, and isDateInPast is false for it, whatever the clock.
C14_OngoingIsNeverPast ==
    /\ (lastRun["rss"].ran /\ lastRun["rss"].exit = 0) =>
          \A feed \in Feeds : \A k \in 1..Len(RssSource(feed)) :
              IsOngoing(SrcStart(RssSource(feed)[k]))
                  => IsAmong(RssSource(feed)[k], lastRun["rss"].emitted[feed])
    /\ page.rendered =>
          \A k \in 1..Len(eventsJson.records) :
              IsOngoing(eventsJson.records[k].startDate)
                  => /\ IsAmong(eventsJson.records[k], page.future)
                     /\ ~IsAmong(eventsJson.records[k], page.past)
    /\ page.checked =>
          \A k \in 1..Len(opportunitiesJson.records) :
              IsOngoing(opportunitiesJson.records[k].Date) => ~page.inPast[k]

\* two weeks after the earlier event the sources hold an ongoing opportunity and an
\* ongoing event: both RSS feeds have their item, the page lists the event as
\* upcoming and the earlier event as past, and the opportunity's date is not past
C14_OngoingKeptEverywhere ==
    /\ now > DaysFromCivil(2025, 12, 2) * MinutesPerDay
    /\ lastRun["rss"].ran /\ lastRun["rss"].exit = 0
    /\ Len(lastRun["rss"].emitted.opportunities) = 1
    /\ IsOngoing(lastRun["rss"].emitted.opportunities[1].Date)
    /\ Len(lastRun["rss"].emitted.events) = 1
    /\ IsOngoing(lastRun["rss"].emitted.events[1].startDate)
    /\ page.rendered
    /\ Len(page.future) = 1 /\ IsOngoing(page.future[1].startDate)
    /\ page.past = <<EarlierEvent>>
    /\ page.checked /\ page.inPast = <<FALSE>>

\* the text is a bare YYYY-MM-DD that names a calendar day
IsValidBareDate(date) ==
    IsString(date) /\ date # Missing /\ IsBareDate(date) /\ DayOfDateText(date) # NaN

\* C15: for a valid bare YYYY-MM-DD, the all-day DTSTART of opportunities.ics, the
\* all-day DTSTART of the calendar file generateICS makes, and the local calendar
\* day getFutureEvents and getPastEvents compare with today, are all the year,
\* month and day written in the text, for every host offset.
C15_BareDateKeepsItsDay ==
    /\ ICalUpToDate =>
          \A i \in 1..Len(lastRun["ical"].emitted.opportunities) :
              LET src    == lastRun["ical"].emitted.opportunities[i]
                  vevent == disk[OPPORTUNITIES_ICAL].vevents[i]
              IN  (IsValidBareDate(SrcStart(src)) /\ vevent.form = "DATE")
                      => vevent.dtstart = StripDashes(SrcStart(src))
    /\ (page.ics.made /\ IsValidBareDate(page.ics.of.startDate)
            /\ page.ics.of.startTime = Missing)
          => (~page.ics.threw /\ page.ics.dtstart = StripDashes(page.ics.of.startDate))
    /\ page.rendered =>
          \A k \in 1..Len(eventsJson.records) :
              IsValidBareDate(eventsJson.records[k].startDate)
                  => (EventDay(eventsJson.records[k], hostOffset, lenient) + hostOffset)
                        \div MinutesPerDay
                     = DayOfDateText(eventsJson.records[k].startDate)

\* YYYYMMDD
IsBasicDate(v) == Len(v) = 8 /\ \A i \in 1..8 : IsDigit(v[i])

\* YYYYMMDDTHHMMSS
IsBasicLocal(v) ==
    /\ Len(v) = 15 /\ v[9] = "T"
    /\ \A i \in (1..8) \cup (10..15) : IsDigit(v[i])

\* YYYYMMDDTHHMMSSZ
IsBasicUtc(v) == Len(v) = 16 /\ v[16] = "Z" /\ IsBasicLocal(SubSeq(v, 1, 15))

\* the record gives a time of day for its start
SrcHasTime(src) ==
    \/ hasTimeComponent(SrcStart(src))
    \/ (~SrcIsOpportunity(src) /\ src.startTime # Missing)

\* the record names a time zone
SrcHasZone(src) == ~SrcIsOpportunity(src) /\ src.timeZone # Missing

\* C16: every VEVENT of either iCal file has a DTSTART and a DTEND of one and the
\* same form: VALUE=DATE with YYYYMMDD when the record gives no time, TZID=<tz> with
\* YYYYMMDDTHHMMSS (no Z) when it gives a time and a time zone, and
\* YYYYMMDDTHHMMSSZ when it gives a time and no time zone.
C16_StartAndEndShareOneForm ==
    ICalUpToDate =>
        \A feed \in Feeds : \A i \in 1..Len(lastRun["ical"].emitted[feed]) :
            LET src    == lastRun["ical"].emitted[feed][i]
                vevent == disk[ICalFileOf(feed)].vevents[i]
            IN  /\ vevent.form = (IF ~SrcHasTime(src) THEN "DATE"
                                  ELSE IF SrcHasZone(src) THEN "TZID" ELSE "UTC")
                /\ vevent.form = "DATE" =>
                      (IsBasicDate(vevent.dtstart) /\ IsBasicDate(vevent.dtend))
                /\ vevent.form = "TZID" =>
                      /\ vevent.tzid # Missing
                      /\ IsBasicLocal(vevent.dtstart) /\ IsBasicLocal(vevent.dtend)
                /\ vevent.form = "UTC" =>
                      (IsBasicUtc(vevent.dtstart) /\ IsBasicUtc(vevent.dtend))

\* C17: in events.ics every recognized time zone (CET, UTC) named by the TZID of a
\* VEVENT has exactly one VTIMEZONE block, and every VTIMEZONE block is for a
\* recognized time zone and holds that zone's own definition: no block is written
\* for an unrecognized zone. (The blocks stand before the VEVENTs in the document.)
C17_OneOwnBlockPerRecognizedZone ==
    ICalUpToDate =>
        LET doc == disk[EVENTS_ICAL]
        IN  /\ \A i \in 1..Len(doc.vevents) :
                  (doc.vevents[i].tzid # Missing
                   /\ getTimezoneBlock(doc.vevents[i].tzid).found)
                      => Cardinality({b \in 1..Len(doc.timezones) :
                                        doc.timezones[b].tzid = doc.vevents[i].tzid}) = 1
            /\ \A b \in 1..Len(doc.timezones) :
                  /\ getTimezoneBlock(doc.timezones[b].tzid).found
                  /\ doc.timezones[b].standard
                        = getTimezoneBlock(doc.timezones[b].tzid).block.standard
                  /\ doc.timezones[b].daylight
                        = getTimezoneBlock(doc.timezones[b].tzid).block.daylight

(***************************************************************************)
(* Free text as a calendar client reads it                                 *)
(***************************************************************************)
\* a character with its backslash-escaped form: \\ for \, \; for ;, \, for the
\* comma, \n for a newline; any other character is itself
EscapedChar(ch) ==
    IF ch = Newline THEN <<Backslash, "n">>
    ELSE IF ch \in {Backslash, ";", ","} THEN <<Backslash, ch>>
    ELSE <<ch>>

Escaped(t) == Concat([i \in 1..Len(t) |-> EscapedChar(t[i])], 1, Len(t))

\* a fold starts at position i: CRLF and one space
FoldAt(s, i) ==
    i >= 1 /\ i + 2 <= Len(s) /\ s[i] = CarriageReturn /\ s[i + 1] = Newline /\ s[i + 2] = " "

\* a folded text with every CRLF-and-one-space removed
Unfold(s) ==
    Concat([i \in 1..Len(s) |->
               IF FoldAt(s, i) \/ FoldAt(s, i - 1) \/ FoldAt(s, i - 2) THEN <<>>
               ELSE <<s[i]>>], 1, Len(s))

\* the physical lines of a text from position i on: what stands between CRLFs
RECURSIVE PhysicalLines(_, _)
PhysicalLines(s, i) ==
    IF i > Len(s) THEN <<>>
    ELSE With(CHOOSE j \in i..(Len(s) + 1) :
                  /\ j = Len(s) + 1 \/ (j < Len(s) /\ s[j] = CarriageReturn
                                        /\ s[j + 1] = Newline)
                  /\ \A k \in i..(j - 1) :
                        ~(k < Len(s) /\ s[k] = CarriageReturn /\ s[k + 1] = Newline),
              LAMBDA j : <<SubSeq(s, i, j - 1)>> \o PhysicalLines(s, j + 2))

StartsWith(line, prefix) ==
    Len(line) >= Len(prefix) /\ SubSeq(line, 1, Len(prefix)) = prefix

\* octets of a character in UTF-8
Octets(ch) == IF ch = "é" THEN 2 ELSE 1

OctetLength(line) == Len(line) + Cardinality({i \in 1..Len(line) : Octets(line[i]) = 2})

TextNames == {SummaryName, DescriptionName, LocationName}

\* the content lines of a text: its physical lines with the folds removed
ContentLines(out) == PhysicalLines(Unfold(out), 1)

\* the physical lines of the property `name`: its first line and the
\* continuation lines that follow it
PropertyLines(out, name) ==
    LET lines == PhysicalLines(out, 1)
    IN  {k \in 1..Len(lines) :
            \E first \in 1..k :
                /\ StartsWith(lines[first], name)
                /\ \A j \in (first + 1)..k : StartsWith(lines[j], <<" ">>)}

WithoutCarriageReturns(s) == replaceAll(s, CarriageReturn, <<>>)

\* the text each writer puts into a property, before any escaping; Missing where
\* it writes no such property
TextCarried(writer, name, r) ==
    IF name = SummaryName
    THEN (IF writer = "events" THEN <<Or(r.title, UntitledEvent)>>
          ELSE IF writer = "items"
               THEN <<Or(r.title, UntitledEvent), Or(r.title, UntitledOpportunity)>>
          ELSE <<r.title>>)
    ELSE IF name = DescriptionName
    THEN (IF writer = "events"
          THEN (IF r.description # Missing \/ r.link # Missing THEN <<r.description>>
                ELSE <<>>)
          ELSE IF writer = "items" THEN <<r.description>>
          ELSE IF writer = "old"
               THEN <<Or(r.description, NoDescription)
                      \o (IF r.type # Missing
                          THEN <<Newline, Newline>> \o SubSeq(TypeLabel, 5, Len(TypeLabel))
                               \o r.type ELSE <<>>)
                      \o (IF r.region # Missing
                          THEN <<Newline>> \o SubSeq(RegionLabel, 3, Len(RegionLabel))
                               \o r.region ELSE <<>>)
                      \o (IF r.issue # Missing
                          THEN <<Newline>> \o SubSeq(IssueLabel, 3, Len(IssueLabel))
                               \o r.issue ELSE <<>>)
                      \o (IF r.who # Missing
                          THEN <<Newline>> \o SubSeq(WhoLabel, 3, Len(WhoLabel))
                               \o r.who ELSE <<>>)
                      \o (IF r.link # Missing
                          THEN <<Newline, Newline>>
                               \o SubSeq(MoreInfoLabel, 5, Len(MoreInfoLabel))
                               \o r.link ELSE <<>>)>>
          ELSE <<r.description \o <<Newline, Newline>>
                 \o SubSeq(MoreInfoLabel, 5, Len(MoreInfoLabel))
                 \o Or(r.link, PageLocation)>>)
    ELSE <<>>

\* the values of the property `name` among the content lines of a text
ValuesOf(out, name) ==
    LET lines == ContentLines(out)
    IN  {SubSeq(lines[k], Len(name) + 1, Len(lines[k])) :
            k \in {j \in 1..Len(lines) : StartsWith(lines[j], name)}}

Writers == {"events", "items", "old", "page"}

\* C18: escaping replaces every backslash, semicolon, comma and newline of a text by
\* its backslash-escaped form and leaves every other character as it is and in
\* its place, whatever the text (folds set aside)
C18_EscapingChangesOnlyTheFourCharacters ==
    text.writer = "escapeICalText" =>
        Unfold(text.out) = Escaped(text.input.title)

\* C19: in the files of generate_ical.js the fold is made on the escaped text, every
\* continuation line starts with the one space of the fold, and no physical
\* line of SUMMARY, DESCRIPTION or LOCATION, name included, is longer than 75 octets
C19_FoldedLinesFitIn75Octets ==
    text.writer \in {"events", "items"} =>
        LET lines == PhysicalLines(text.out, 1)
        IN  /\ \A k \in 1..Len(lines) :
                  \/ StartsWith(lines[k], <<" ">>)
                  \/ \E name \in TextNames \cup {UrlName} : StartsWith(lines[k], name)
            /\ \A name \in TextNames :
                  \A v \in ValuesOf(text.out, name) :
                      \E t \in {TextCarried(text.writer, name, text.input)[c] :
                                  c \in 1..Len(TextCarried(text.writer, name, text.input))} :
                          WithoutCarriageReturns(v) = WithoutCarriageReturns(Escaped(t))
            /\ \A name \in TextNames :
                  \A k \in PropertyLines(text.out, name) : OctetLength(lines[k]) <= 75

\* C20: every SUMMARY, DESCRIPTION and LOCATION value written is the text it carries
\* escaped once: nothing of the record is written unescaped, and no escape
\* sequence the writer made itself is escaped again
C20_EveryTextValueIsEscapedOnce ==
    text.writer \in Writers =>
        \A name \in TextNames :
            /\ (TextCarried(text.writer, name, text.input) # <<>>)
                   => ValuesOf(text.out, name) # {}
            /\ \A v \in ValuesOf(text.out, name) :
                   \E t \in {TextCarried(text.writer, name, text.input)[c] :
                               c \in 1..Len(TextCarried(text.writer, name, text.input))} :
                       WithoutCarriageReturns(v) = WithoutCarriageReturns(Escaped(t))

(***************************************************************************)
(* The text elements of an RSS item                                        *)
(***************************************************************************)
CDataOpen == <<"<", "!", "[", "C", "D", "A", "T", "A", "[">>

CDataClose == <<"]", "]", ">">>

XmlEntities == {<<"&", "a", "m", "p", ";">>, <<"&", "l", "t", ";">>, <<"&", "g", "t", ";">>,
                <<"&", "q", "u", "o", "t", ";">>, <<"&", "#", "3", "9", ";">>}

\* every ampersand of s starts an entity reference
NoRawAmpersand(s) ==
    \A i \in 1..Len(s) :
        s[i] = "&" => \E e \in XmlEntities :
                          i + Len(e) - 1 <= Len(s) /\ SubSeq(s, i, i + Len(e) - 1) = e

\* the title an item carries: the record's, or the default of its kind
RssTitlesCarried(r) == {Or(r.title, UntitledEvent), Or(r.title, UntitledOpportunity)}

\* C21: in every RSS item the title and the description are the record's text inside
\* a CDATA section, markup as it was written, and the link and the guid hold no
\* ampersand but the one that starts an entity reference
C21_TitleAndDescriptionInCData ==
    text.writer = "rss" =>
        /\ text.out.title \in {CDataOpen \o t \o CDataClose : t \in RssTitlesCarried(text.input)}
        /\ text.out.description = CDataOpen \o text.input.description \o CDataClose
        /\ NoRawAmpersand(text.out.link)
        /\ NoRawAmpersand(text.out.guid)

(***************************************************************************)
(* The list the dashboard loaded                                           *)
(***************************************************************************)
\* the bare date names a calendar day before the day of the clock in the host's zone
DatedBeforeToday(date, clock, offset) ==
    /\ IsValidBareDate(date)
    /\ DayOfDateText(date) < (clock + offset) \div MinutesPerDay

\* a text that is neither the sentinel nor a date
IsUnparseable(date) ==
    /\ IsString(date) /\ date # Missing
    /\ toLowerCase(trim(date)) # Ongoing
    /\ DayOfDateText(date) = NaN

IsLoaded(r) == \E i \in 1..Len(page.loaded) : page.loaded[i].src = r

\* C22: the list the dashboard loaded holds no archived, no untitled and no
\* opportunity dated before today in the host's zone, and it holds every titled,
\* unarchived opportunity that is undated, "Ongoing" or dated with a text that is
\* no date.
C22_LoadedListIsCurrent ==
    page.fetched =>
        \A k \in 1..Len(opportunitiesJson.records) :
            With(opportunitiesJson.records[k], LAMBDA r :
                /\ (r.Archived \/ r.Title = Missing \/ DatedBeforeToday(r.Date, now, hostOffset))
                       => ~IsLoaded(r)
                /\ (/\ ~r.Archived /\ r.Title # Missing
                    /\ (r.Date = Missing \/ IsUnparseable(r.Date)
                        \/ (IsString(r.Date) /\ toLowerCase(trim(r.Date)) = Ongoing)))
                       => IsLoaded(r))

\* the list was loaded from a file with a past-dated and an ongoing opportunity:
\* the first is left out, the second is in the list
C22_PastLeftOutOngoingLoaded ==
    /\ page.fetched
    /\ ~IsLoaded(EarlierOpp)
    /\ \E i \in 1..Len(page.loaded) : page.loaded[i].date = OngoingSpaced

(***************************************************************************)
(* What a run leaves on disk                                               *)
(***************************************************************************)
\* the processed items of a feed of generate_rss.js, from the source files
RssProcessed(feed, oppFile, evFile) ==
    IF feed = "opportunities" THEN MapSeq(RssProcessOpportunity, oppFile.records)
    ELSE MapSeq(RssProcessEvent, evFile.records)

\* the DATA_FINGERPRINT of the items that pass the filter of a run at the clock
FingerprintOf(feed, oppFile, evFile, clock) ==
    [present |-> TRUE,
     of |-> MapSeq(ItemJson, RssValidItems(RssProcessed(feed, oppFile, evFile),
                                           clock, hostOffset, lenient))]

\* C23: a run of generate_rss.js that exits 0 leaves a feed file unwritten exactly
\* when the file was there, held a DATA_FINGERPRINT, and that fingerprint is the
\* one of the items the run filtered; and after every such run the fingerprint in
\* each feed file is the one of the items the run filtered.
C23_WriteSkippedOnlyOnEqualFingerprint ==
    /\ [][(RunRSS /\ lastRun'["rss"].exit = 0) =>
            \A feed \in Feeds :
                (\A i \in 1..Len(lastRun'["rss"].writes) :
                     lastRun'["rss"].writes[i] # RssFileOf(feed))
                <=> (/\ disk[RssFileOf(feed)] # Absent
                     /\ disk[RssFileOf(feed)].fingerprint.present
                     /\ disk[RssFileOf(feed)].fingerprint
                            = FingerprintOf(feed, opportunitiesJson, eventsJson, now))]_vars
    /\ []((lastRun["rss"].ran /\ lastRun["rss"].exit = 0) =>
            \A feed \in Feeds :
                /\ disk[RssFileOf(feed)] # Absent
                /\ disk[RssFileOf(feed)].fingerprint
                       = FingerprintOf(feed, lastRun["rss"].opps, lastRun["rss"].events,
                                       lastRun["rss"].clock))

\* the first run of generate_rss.js found a feed file without fingerprint and one
\* with the fingerprint of its items: it wrote the first and left the second
C23_OneFeedWrittenOneLeft ==
    /\ lastRun["rss"].ran /\ ~lastRun["rss"].previous.ran
    /\ lastRun["rss"].exit = 0
    /\ lastRun["rss"].writes = <<OPPORTUNITIES_OUTPUT_FILE>>
    /\ Len(lastRun["rss"].emitted.events) > 0
    /\ disk[EVENTS_OUTPUT_FILE].items = <<>>
    /\ disk[OPPORTUNITIES_OUTPUT_FILE].fingerprint.present

\* what a step that runs script s may change: at most two files, both its own
RunKeepsToItsFiles(s) ==
    /\ Len(lastRun'[s].writes) <= 2
    /\ \A i \in 1..Len(lastRun'[s].writes) : lastRun'[s].writes[i] \in FilesOf(s)
    /\ \A f \in OutputFiles :
          disk'[f] # disk[f] =>
              /\ f \in FilesOf(s)
              /\ \E i \in 1..Len(lastRun'[s].writes) : lastRun'[s].writes[i] = f
    /\ opportunitiesJson' = opportunitiesJson
    /\ eventsJson' = eventsJson

\* C24: a run of generate_rss.js writes at most two files, changes no file but
\* opportunities.rss and events.rss, and leaves the source files as they are; a
\* run of generate_ical.js likewise with opportunities.ics and events.ics; and
\* no file belongs to both generators.
C24_EachGeneratorWritesOnlyItsOwnFiles ==
    /\ [][(RunRSS => RunKeepsToItsFiles("rss")) /\ (RunICal => RunKeepsToItsFiles("ical"))]_vars
    /\ [](FilesOf("rss") \cap FilesOf("ical") = {})

\* generate_ical.js alone has run and written its two files, next to two feed
\* files of the other generator that are as they were
C24_CalendarsWrittenFeedsUntouched ==
    /\ lastRun["ical"].ran /\ ~lastRun["rss"].ran
    /\ lastRun["ical"].writes = <<OPPORTUNITIES_ICAL, EVENTS_ICAL>>
    /\ disk[OPPORTUNITIES_ICAL].kind = "ics" /\ disk[EVENTS_ICAL].kind = "ics"
    /\ disk[OPPORTUNITIES_OUTPUT_FILE] = ForeignRss
    /\ disk[EVENTS_OUTPUT_FILE] = ForeignRss

\* the documents the last run of script s generated: what it writes where no
\* output file is there
GeneratedBy(s) ==
    IF s = "ical"
    THEN generateICal(lastRun[s].opps, lastRun[s].events, [f \in OutputFiles |-> Absent],
                      lastRun[s].clock, hostOffset, lenient).disk
    ELSE generateRSS(lastRun[s].opps, lastRun[s].events, [f \in OutputFiles |-> Absent],
                     lastRun[s].clock, hostOffset, lenient).disk

\* C25: after a run of a generator that exited 0, each of its output files is the
\* document the run generated for it, whatever the file held before the run.
C25_DiskHoldsTheGeneratedDocument ==
    \A s \in Scripts :
        (lastRun[s].ran /\ lastRun[s].exit = 0) =>
            \A f \in FilesOf(s) : disk[f] = GeneratedBy(s)[f]

\* the start time of a source record; an opportunity has none
SrcStartTime(src) == IF SrcIsOpportunity(src) THEN Missing ELSE src.startTime

ShowsMode(sections, mode) ==
    \A i \in 1..Len(sections) :
        /\ sections[i].viewTable = (mode = "table")
        /\ sections[i].active \in {"none", mode}

\* the mode localStorage stands for: 'table' or, for anything else, cards
PersistedMode == IF page.ui.eventsViewMode = <<"table">> THEN "table" ELSE "cards"

\* C27: once init has run, after any clicks on the toggle and any filter changes,
\* the rendered sections are in table view exactly when localStorage holds
\* eventsViewMode 'table', the active button of the toggle is the one of that mode,
\* and a click on a button of the toggle has taken effect.
C27_ViewFollowsPersistedMode ==
    page.ui.ready =>
        /\ ShowsMode(page.ui.sections, PersistedMode)
        /\ page.ui.clicked # "none" =>
              /\ page.ui.eventsViewMode = <<page.ui.clicked>>
              /\ ShowsMode(page.ui.sections, page.ui.clicked)

\* the event passes every filter that is not empty
MatchesFilters(event, currentFilters) ==
    \A f \in FilterNames : currentFilters[f] # <<>> => event[f] = currentFilters[f]

\* how often the event e is among the events of the list that satisfy Keep
Occurrences(list, e, Keep(_)) ==
    Cardinality({i \in 1..Len(list) : list[i] = e /\ Keep(list[i])})

\* the cards of the upcoming events on the page
UpcomingCards ==
    IF HasViewToggle(page.ui.sections) THEN page.ui.sections[1].cards ELSE <<>>

\* the event matches the filters and is not dated before the day of the clock
CountsAsUpcoming(event) ==
    /\ MatchesFilters(event, page.ui.currentFilters)
    /\ ~DatedBeforeToday(event.startDate, now, hostOffset)

\* C28: the displayed count is the number of events of allEvents that match every
\* non-empty filter and are not dated before today, and the cards of the upcoming
\* section are exactly those events.
C28_CountIsMatchingUpcomingEvents ==
    page.ui.ready =>
        /\ page.ui.count
              = Cardinality({i \in 1..Len(page.ui.allEvents) :
                                CountsAsUpcoming(page.ui.allEvents[i])})
        /\ \A e \in {page.ui.allEvents[i] : i \in 1..Len(page.ui.allEvents)}
                 \cup {UpcomingCards[i] : i \in 1..Len(UpcomingCards)} :
              Occurrences(UpcomingCards, e, LAMBDA c : TRUE)
                  = Occurrences(page.ui.allEvents, e, CountsAsUpcoming)

AnOverlayIsOpen ==
    page.ov.menu \/ page.ov.addEvent \/ page.ov.subscription = "show"

\* C30: whenever the mobile menu, the add-event modal or a subscription modal is
\* open, document.body.style.overflow is 'hidden'; no close of one overlay, by
\* click, by the 200 ms timer or by Escape, enables scrolling while another overlay
\* is open.
C30_NoScrollingUnderAnOpenOverlay ==
    AnOverlayIsOpen => page.ov.overflow = "hidden"
====
